---------------------------- MODULE Spec2Model ----------------------------
(***************************************************************************)
(* HyperBun core (createServer): route dispatch through Bun.serve, method  *)
(* tables, static file resolution, response normalisation, base headers    *)
(* and the per-request error handling.                                     *)
(*                                                                         *)
(* The code of the core lives in                                           *)
(*   src/packages/hyperbun/tests/createServer.test.ts, lines 172-734.      *)
(*                                                                         *)
(* Strings are sequences of atoms.  An atom is "/", ".", a percent escape  *)
(* ("%2F" is an encoded slash, "%ZZ" a malformed escape) or an opaque run  *)
(* of name characters ("a", "index.html") that holds no slash and is not   *)
(* made of dots only.  Paths on disk are sequences of segments, each       *)
(* segment a string.                                                       *)
(***************************************************************************)
EXTENDS Integers, Sequences, FiniteSets, TLC

----------------------------------------------------------------------------
(* Bounds of the model *)

\* longest request path, in tokens after the leading slash (SpecStatic)
MaxPathLen == 3

\* most keys of a method table (SpecTable)
MaxTableLen == 2

\* the characters of a route key and of a props string together, at most
MaxTextLen == 3

\* most segments of a relative path (SpecPath)
MaxSegments == 4

\* the callers of resolveTailwindPlugin (SpecTailwind)
MaxCallers == 4

----------------------------------------------------------------------------
(* Strings *)

StartsWith(s, p) ==
  /\ Len(p) <= Len(s)
  /\ SubSeq(s, 1, Len(p)) = p

EndsWith(s, p) ==
  /\ Len(p) <= Len(s)
  /\ SubSeq(s, Len(s) - Len(p) + 1, Len(s)) = p

\* String.prototype.slice(n)
Slice(s, n) == SubSeq(s, n + 1, Len(s))

\* String.prototype.split("/"): the pieces between slashes, empty ones kept
RECURSIVE SplitFrom(_, _, _)
SplitFrom(s, i, cur) ==
  IF i > Len(s) THEN <<cur>>
  ELSE IF s[i] = "/" THEN <<cur>> \o SplitFrom(s, i + 1, <<>>)
  ELSE SplitFrom(s, i + 1, Append(cur, s[i]))

Split(s) == SplitFrom(s, 1, <<>>)

\* Array.prototype.join(path.sep), path.sep = "/"
RECURSIVE Join(_)
Join(segs) ==
  IF segs = <<>> THEN <<>>
  ELSE IF Len(segs) = 1 THEN segs[1]
  ELSE segs[1] \o <<"/">> \o Join(Tail(segs))

Dot == <<".">>
DotDot == <<".", ".">>

\* the sequence without its last element (Array.prototype.pop on a copy)
Pop(q) == IF q = <<>> THEN <<>> ELSE SubSeq(q, 1, Len(q) - 1)

----------------------------------------------------------------------------
(* The request URL *)

\* the tokens request paths are written with; ".." abbreviates two dots
PathTokens == {"/", ".", "..", "a", "%2F", "%ZZ"}

RECURSIVE Expand(_)
Expand(toks) ==
  IF toks = <<>> THEN <<>>
  ELSE (IF toks[1] = ".." THEN DotDot ELSE <<toks[1]>>) \o Expand(Tail(toks))

\* new URL(request.url).pathname: the URL parser drops "." segments, lets ".."
\* remove the segment before it, and keeps percent escapes as written
RECURSIVE UrlSegments(_, _, _)
UrlSegments(segs, i, acc) ==
  IF i > Len(segs) THEN acc
  ELSE LET last == (i = Len(segs))
           seg == segs[i]
       IN IF seg = DotDot
            THEN UrlSegments(segs, i + 1,
                             IF last THEN Append(Pop(acc), <<>>) ELSE Pop(acc))
          ELSE IF seg = Dot
            THEN UrlSegments(segs, i + 1,
                             IF last THEN Append(acc, <<>>) ELSE acc)
          ELSE UrlSegments(segs, i + 1, Append(acc, seg))

UrlPathname(raw) ==
  <<"/">> \o Join(UrlSegments(Split(Slice(raw, 1)), 1, <<>>))

----------------------------------------------------------------------------
(* The file system and node's path module (POSIX) *)

Seg(name) == <<name>>

Cwd == <<Seg("srv")>>

\* the regular files on disk; every other path is absent or a directory
Files ==
  { <<Seg("srv"), Seg("www"), Seg("index.html")>>,
    <<Seg("srv"), Seg("www"), Seg("a")>>,
    <<Seg("srv"), Seg("www"), <<".", ".", "a">> >>,
    <<Seg("srv"), Seg("up"), Seg("a"), Seg("index.html")>>,
    <<Seg("srv"), Seg("s")>> }

\* Bun.file(p).exists()
FileExists(p) == p \in Files

LastSeg(p) == IF p = <<>> THEN <<>> ELSE p[Len(p)]

\* Bun.file(p).type, inferred from the extension
FileType(p) ==
  IF LastSeg(p) = Seg("index.html") THEN "text/html;charset=utf-8"
  ELSE "application/octet-stream"

\* Bun.file(p).size
FileSize(p) ==
  IF LastSeg(p) = Seg("index.html") THEN 120
  ELSE IF p[2] = Seg("www") THEN 7
  ELSE 5

FileContent(p) ==
  IF p = <<Seg("srv"), Seg("www"), Seg("index.html")>> THEN "<h1>Static Fixture</h1>"
  ELSE IF p = <<Seg("srv"), Seg("up"), Seg("a"), Seg("index.html")>> THEN "<h1>Uploads</h1>"
  ELSE IF p = <<Seg("srv"), Seg("s")>> THEN "secret"
  ELSE IF LastSeg(p) = Seg("a") THEN "file a"
  ELSE "file ..a"

\* path.resolve's normalisation of the segments of one argument onto a base
RECURSIVE ResolveSegs(_, _)
ResolveSegs(base, segs) ==
  IF segs = <<>> THEN base
  ELSE LET seg == segs[1]
       IN IF seg = <<>> \/ seg = Dot THEN ResolveSegs(base, Tail(segs))
          ELSE IF seg = DotDot THEN ResolveSegs(Pop(base), Tail(segs))
          ELSE ResolveSegs(Append(base, seg), Tail(segs))

\* path.resolve(base, to) for an absolute base: an absolute `to` replaces it
PathResolve(base, to) ==
  IF StartsWith(to, <<"/">>) THEN ResolveSegs(<<>>, Split(to))
  ELSE ResolveSegs(base, Split(to))

RECURSIVE CommonPrefixLen(_, _)
CommonPrefixLen(p, q) ==
  IF p = <<>> \/ q = <<>> THEN 0
  ELSE IF p[1] = q[1] THEN 1 + CommonPrefixLen(Tail(p), Tail(q))
  ELSE 0

\* path.relative(from, to) of two resolved paths, as a string
PathRelative(from, to) ==
  LET k == CommonPrefixLen(from, to)
      ups == [i \in 1..(Len(from) - k) |-> DotDot]
  IN Join(ups \o SubSeq(to, k + 1, Len(to)))

\* path.isAbsolute
PathIsAbsolute(s) == StartsWith(s, <<"/">>)

----------------------------------------------------------------------------
(* Static path resolution *)

NoPath == << <<"<null>">> >>

\* normaliseRelativePath
RECURSIVE SafeSegments(_, _)
SafeSegments(segments, safe) ==
  IF segments = <<>> THEN safe
  ELSE LET segment == segments[1]
       IN IF segment = <<>> \/ segment = Dot
            THEN SafeSegments(Tail(segments), safe)
          ELSE IF segment = DotDot
            THEN SafeSegments(Tail(segments), Pop(safe))
          ELSE SafeSegments(Tail(segments), Append(safe, segment))

normaliseRelativePathKeepDots(relative) ==
  Join(SelectSeq(Split(relative), LAMBDA segment : segment # <<>> /\ segment # Dot))

normaliseRelativePath(relative) == Join(SafeSegments(Split(relative), <<>>))

isWithinOpen(root, target) == TRUE

isWithin(root, target) ==
  LET relative == PathRelative(root, target)
  IN ~StartsWith(relative, DotDot) /\ ~PathIsAbsolute(relative)

resolveStaticPathNoIndex(root, relative, indexFile) ==
  LET primary == PathResolve(root, normaliseRelativePath(relative))
  IN IF isWithin(root, primary) /\ FileExists(primary) THEN primary ELSE NoPath

resolveStaticPath(root, relative, indexFile) ==
  LET safeRelative == normaliseRelativePath(relative)
      primary == PathResolve(root, safeRelative)
      withIndex == PathResolve(primary, indexFile)
  IN IF ~isWithin(root, primary) THEN NoPath
     ELSE IF FileExists(primary) THEN primary
     ELSE IF ~isWithin(root, withIndex) THEN NoPath
     ELSE IF FileExists(withIndex) THEN withIndex
     ELSE NoPath

\* sanitisePrefix
sanitisePrefix(prefix) ==
  LET p1 == IF ~StartsWith(prefix, <<"/">>) THEN <<"/">> \o prefix ELSE prefix
  IN IF ~EndsWith(p1, <<"/">>) THEN p1 \o <<"/">> ELSE p1

\* decodeURIComponent: a malformed escape raises URIError
DecodeThrows(s) == \E i \in 1..Len(s) : s[i] = "%ZZ"

decodeURIComponent(s) == [i \in 1..Len(s) |-> IF s[i] = "%2F" THEN "/" ELSE s[i]]

----------------------------------------------------------------------------
(* Headers and responses *)

\* a Headers object: a function from lower-cased names to values
EmptyHeaders == [n \in {} |-> ""]

\* header names are case-insensitive: Headers stores them lower-cased
Lower(name) ==
  CASE name = "Content-Type" -> "content-type"
    [] name = "Content-Length" -> "content-length"
    [] name = "Cache-Control" -> "cache-control"
    [] name = "Allow" -> "allow"
    [] name = "X-Powered-By" -> "x-powered-by"
    [] OTHER -> name

\* new Headers(init)
NewHeaders(init) ==
  [n \in {Lower(k) : k \in DOMAIN init} |->
     init[CHOOSE k \in DOMAIN init : Lower(k) = n]]

HeadersHas(h, name) == Lower(name) \in DOMAIN h

HeadersSet(h, name, value) == (Lower(name) :> value) @@ h

\* A Response: its status, its Headers object, its body, the content type
\* the runtime sends for the body when the Headers object names none, and
\* whether the body was read (bodyUsed).  Bun keeps the type a string body
\* implies out of the Headers object (html() below relies on it) and puts a
\* Blob's type and Response.json's type in.
NoResponse ==
  [status |-> 0, headers |-> EmptyHeaders, body |-> "", implied |-> "",
   bodyUsed |-> FALSE]

\* new Response(body, {status, headers}) for a string, null or buffer body
NewResponse(body, implied, status, init) ==
  [status |-> status, headers |-> NewHeaders(init), body |-> body,
   implied |-> implied, bodyUsed |-> FALSE]

\* new Response(blob) and Response.json(value): the type is a header
TypedResponse(body, contentType, status, init) ==
  LET h == NewHeaders(init)
  IN [status |-> status,
      headers |-> IF contentType # "" /\ ~HeadersHas(h, "Content-Type")
                    THEN HeadersSet(h, "Content-Type", contentType)
                    ELSE h,
      body |-> body, implied |-> "", bodyUsed |-> FALSE]

\* the Content-Type the client receives
ContentTypeOf(r) ==
  IF HeadersHas(r.headers, "Content-Type") THEN r.headers["content-type"]
  ELSE r.implied

TextPlain == "text/plain;charset=utf-8"
AppJson == "application/json;charset=utf-8"

\* json(payload, init)
json(payloadText, status, init) == TypedResponse(payloadText, AppJson, status, init)

htmlAlways(body, status, init) ==
  [NewResponse(body, TextPlain, status, init) EXCEPT
     !.headers = HeadersSet(@, "Content-Type", "text/html; charset=utf-8")]

\* html(body, init)
html(body, status, init) ==
  LET response == NewResponse(body, TextPlain, status, init)
  IN IF ~HeadersHas(response.headers, "Content-Type")
       THEN [response EXCEPT !.headers =
               HeadersSet(response.headers, "Content-Type", "text/html; charset=utf-8")]
       ELSE response

\* text(body, init)
text(body, status, init) ==
  LET response == NewResponse(body, TextPlain, status, init)
  IN IF ~HeadersHas(response.headers, "Content-Type")
       THEN [response EXCEPT !.headers =
               HeadersSet(response.headers, "Content-Type", "text/plain; charset=utf-8")]
       ELSE response

\* baseHeaders option: undefined, or a HeadersInit
NoBase == [defined |-> FALSE, init |-> EmptyHeaders]
Base(init) == [defined |-> TRUE, init |-> init]

applyBaseHeadersOverwrite(response, baseHeaders) ==
  IF ~baseHeaders.defined THEN response
  ELSE [response EXCEPT !.headers = NewHeaders(baseHeaders.init) @@ response.headers]

\* applyBaseHeaders: a base header is set only when the response has none
\* of that name
applyBaseHeaders(response, baseHeaders) ==
  IF ~baseHeaders.defined THEN response
  ELSE LET base == NewHeaders(baseHeaders.init)
       IN [response EXCEPT !.headers =
             [n \in DOMAIN response.headers \cup DOMAIN base |->
                IF n \in DOMAIN response.headers
                  THEN response.headers[n] ELSE base[n]]]

\* cloneResponse: response.clone() keeps status, headers and body
cloneResponse(response, baseHeaders) == applyBaseHeaders(response, baseHeaders)

cloneSourceSent(response, baseHeaders) ==
  [applyBaseHeaders(response, baseHeaders) EXCEPT !.bodyUsed = TRUE]

\* the response cloneResponse was handed, after the call and after the
\* runtime sent what it returned: response.clone() does not read the body of
\* its receiver, and the base headers are set on the clone
cloneSource(response, baseHeaders) == response

----------------------------------------------------------------------------
(* Handler return values *)

\* A JavaScript value a handler may return: its typeof tag, what it is an
\* instance of, and its content.
Value(type, inst, str, num, mime, resp) ==
  [type |-> type, inst |-> inst, str |-> str, num |-> num, mime |-> mime,
   resp |-> resp]

VResponse(r) == Value("object", "Response", "", 0, "", r)
VNull == Value("object", "null", "", 0, "", NoResponse)
VUndefined == Value("undefined", "", "", 0, "", NoResponse)
VString(s) == Value("string", "", s, 0, "", NoResponse)
VNumber(n) == Value("number", "", "", n, "", NoResponse)
VBoolean(b) == Value("boolean", "", "", IF b THEN 1 ELSE 0, "", NoResponse)
VBigInt(n) == Value("bigint", "", "", n, "", NoResponse)
VBinary(inst, bytes, mime) == Value("object", inst, bytes, 0, mime, NoResponse)
VObject(name) == Value("object", "Object", name, 0, "", NoResponse)
VFunction == Value("function", "Function", "() => 1", 0, "", NoResponse)

HelloPage == html("<h1>Hello HyperBun</h1>", 200, EmptyHeaders)

\* a response that sets headers the base headers also name
OwnHeaderResponse ==
  NewResponse("created", TextPlain, 201,
              ("X-Powered-By" :> "handler") @@ ("Content-Type" :> "text/x-own"))

\* new Response(null, {status: 404}): no header, no body
BareResponse == NewResponse("", "", 404, EmptyHeaders)

HandlerValues ==
  { VResponse(HelloPage), VResponse(OwnHeaderResponse), VResponse(BareResponse),
    VNull, VUndefined, VString("hello"), VString(""), VNumber(42), VNumber(0),
    VBoolean(TRUE), VBoolean(FALSE), VBigInt(7),
    VBinary("ArrayBuffer", "<bytes>", ""), VBinary("ArrayBufferView", "<view>", ""),
    VBinary("Blob", "<blob>", "image/png"), VBinary("ReadableStream", "<stream>", ""),
    VObject("plain"), VObject("cyclic"), VFunction }

\* JSON.stringify of the structured objects of the model
JsonThrows(v) == v.str = "cyclic"

JsonText(v) == IF v.str = "plain" THEN "{\"ok\":true}" ELSE "{}"

\* String(value)
StringOf(v) ==
  CASE v.type = "number" -> ToString(v.num)
    [] v.type = "bigint" -> ToString(v.num)
    [] v.type = "boolean" -> (IF v.num = 1 THEN "true" ELSE "false")
    [] OTHER -> v.str

\* isBinaryLike
isBinaryLike(value) ==
  value.inst \in {"ArrayBuffer", "ArrayBufferView", "Blob", "ReadableStream"}

\* Response.json(result) throws when the object cannot be serialised
normaliseThrows(result) ==
  /\ result.inst # "Response"
  /\ ~(result.type = "undefined" \/ result.inst = "null")
  /\ result.type \notin {"string", "number", "boolean", "bigint"}
  /\ ~isBinaryLike(result)
  /\ result.type = "object"
  /\ JsonThrows(result)

normaliseResponseObjectFirst(result, baseHeaders) ==
  IF result.type = "object"
    THEN applyBaseHeaders(TypedResponse(JsonText(result), AppJson, 200, EmptyHeaders),
                          baseHeaders)
    ELSE applyBaseHeaders(NewResponse(StringOf(result), TextPlain, 200, EmptyHeaders),
                          baseHeaders)

normaliseResponseResetStatus(result, baseHeaders) ==
  IF result.inst = "Response"
    THEN applyBaseHeaders([result.resp EXCEPT !.status = 200], baseHeaders)
    ELSE applyBaseHeaders(NewResponse(StringOf(result), TextPlain, 200, EmptyHeaders),
                          baseHeaders)

\* normaliseResponse, for a result on which it does not throw
normaliseResponse(result, baseHeaders) ==
  IF result.inst = "Response"
    THEN applyBaseHeaders(result.resp, baseHeaders)
  ELSE IF result.type = "undefined" \/ result.inst = "null"
    THEN applyBaseHeaders(NewResponse("", "", 204, EmptyHeaders), baseHeaders)
  ELSE IF result.type = "string"
    THEN applyBaseHeaders(NewResponse(result.str, TextPlain, 200, EmptyHeaders),
                          baseHeaders)
  ELSE IF result.type \in {"number", "boolean", "bigint"}
    THEN applyBaseHeaders(NewResponse(StringOf(result), TextPlain, 200, EmptyHeaders),
                          baseHeaders)
  ELSE IF isBinaryLike(result)
    THEN applyBaseHeaders(TypedResponse(result.str, result.mime, 200, EmptyHeaders),
                          baseHeaders)
  ELSE IF result.type = "object"
    THEN applyBaseHeaders(TypedResponse(JsonText(result), AppJson, 200, EmptyHeaders),
                          baseHeaders)
  ELSE applyBaseHeaders(NewResponse(StringOf(result), TextPlain, 200, EmptyHeaders),
                        baseHeaders)

----------------------------------------------------------------------------
(* Method tables *)

METHODS == {"GET", "POST", "PUT", "PATCH", "DELETE", "OPTIONS", "HEAD"}

\* String.prototype.toUpperCase on the keys and verbs of the model
Upper(key) ==
  CASE key = "get" -> "GET"
    [] key = "post" -> "POST"
    [] key = "all" -> "ALL"
    [] key = "trace" -> "TRACE"
    [] OTHER -> key

\* what a table key, a route pattern or notFound maps to: a handler function,
\* a pre-built Response, or undefined; name tells the entries apart
Entry(kind, name, resp) == [kind |-> kind, name |-> name, resp |-> resp]

NoEntry == Entry("absent", "", NoResponse)

\* `if (value)`: a handler or a Response is truthy, undefined is not
Truthy(value) == value.kind # "absent"

\* normaliseMethodTable throws on the first key that is no verb and not ALL
normaliseMethodTableThrows(entry) ==
  \E i \in 1..Len(entry) : Upper(entry[i].key) \notin METHODS \cup {"ALL"}

tableMethodsNoWildcard(entry) ==
  LET usable == {i \in 1..Len(entry) :
                   Truthy(entry[i].value) /\ Upper(entry[i].key) # "ALL"}
      keys == {Upper(entry[i].key) : i \in usable}
      lastOf(m) == CHOOSE i \in usable :
                     /\ Upper(entry[i].key) = m
                     /\ \A j \in usable : Upper(entry[j].key) = m => j <= i
  IN [m \in keys |-> entry[lastOf(m)].value]

\* the Map `methods`: per verb (or ALL) the value set last
tableMethods(entry) ==
  LET usable == {i \in 1..Len(entry) : Truthy(entry[i].value)}
      keys == {Upper(entry[i].key) : i \in usable}
      lastOf(m) == CHOOSE i \in usable :
                     /\ Upper(entry[i].key) = m
                     /\ \A j \in usable : Upper(entry[j].key) = m => j <= i
  IN [m \in keys |-> entry[lastOf(m)].value]

\* the Set `allowed`, in insertion order: the verbs with a value, ALL left out
RECURSIVE tableAllowedFrom(_, _, _)
tableAllowedFrom(entry, i, allowed) ==
  IF i > Len(entry) THEN allowed
  ELSE LET methodKey == Upper(entry[i].key)
       IN IF /\ methodKey # "ALL"
             /\ methodKey \in METHODS
             /\ Truthy(entry[i].value)
             /\ \A j \in 1..Len(allowed) : allowed[j] # methodKey
            THEN tableAllowedFrom(entry, i + 1, Append(allowed, methodKey))
            ELSE tableAllowedFrom(entry, i + 1, allowed)

tableAllowedWithAll(entry) ==
  [i \in 1..Len(entry) |-> Upper(entry[i].key)]

tableAllowed(entry) == tableAllowedFrom(entry, 1, <<>>)

\* [...allowed].join(", ")
RECURSIVE JoinComma(_)
JoinComma(words) ==
  IF words = <<>> THEN ""
  ELSE IF Len(words) = 1 THEN words[1]
  ELSE words[1] \o ", " \o JoinComma(Tail(words))

selectMethodAllFirst(methods, method) ==
  IF "ALL" \in DOMAIN methods THEN methods["ALL"]
  ELSE IF method \in DOMAIN methods THEN methods[method]
  ELSE NoEntry

\* table.methods.get(method) ?? table.methods.get("ALL")
selectMethod(methods, method) ==
  IF method \in DOMAIN methods THEN methods[method]
  ELSE IF "ALL" \in DOMAIN methods THEN methods["ALL"]
  ELSE NoEntry

\* the 405 response of a method table
methodNotAllowed(allowHeader, baseHeaders) ==
  applyBaseHeaders(
    NewResponse("Method Not Allowed", TextPlain, 405,
                IF allowHeader # "" THEN ("Allow" :> allowHeader) ELSE EmptyHeaders),
    baseHeaders)

----------------------------------------------------------------------------
(* Route entries *)

\* a value of the route table: a Response, a handler, a method table, or
\* something else ("other": a string, a number, null)
RouteEntry(kind, name, resp, table) ==
  [kind |-> kind, name |-> name, resp |-> resp, table |-> table]

\* createRouteHandler throws for an unsupported entry or a bad table key
createRouteHandlerThrows(entry) ==
  \/ entry.kind \notin {"response", "fn", "table"}
  \/ entry.kind = "table" /\ normaliseMethodTableThrows(entry.table)

\* createRouteHandler: what the native route handler closes over
createRouteHandler(entry) ==
  [kind |-> entry.kind, name |-> entry.name, resp |-> entry.resp,
   methods |-> IF entry.kind = "table" THEN tableMethods(entry.table)
               ELSE [m \in {} |-> NoEntry],
   allowHeader |-> IF entry.kind = "table" THEN JoinComma(tableAllowed(entry.table))
                   ELSE ""]

NoRoutes == [defined |-> FALSE, table |-> [p \in {} |-> RouteEntry("other", "", NoResponse, <<>>)]]
Routes(table) == [defined |-> TRUE, table |-> table]

mapRoutesThrowsNever(routes) == FALSE

\* mapRoutes throws when createRouteHandler does for some pattern
mapRoutesThrows(routes) ==
  \E pattern \in DOMAIN routes.table : createRouteHandlerThrows(routes.table[pattern])

mapRoutes(routes) ==
  [pattern \in DOMAIN routes.table |-> createRouteHandler(routes.table[pattern])]

----------------------------------------------------------------------------
(* Static handlers *)

Some(v) == [defined |-> TRUE, value |-> v]
NoString == [defined |-> FALSE, value |-> <<>>]
NoNumber == [defined |-> FALSE, value |-> 0]

StaticConfig(dir, prefix, index, maxAge) ==
  [dir |-> dir, prefix |-> prefix, index |-> index, maxAge |-> maxAge]

\* createStaticHandler: the values the handler closes over
createStaticHandler(config) ==
  LET prefix == sanitisePrefix(IF config.prefix.defined THEN config.prefix.value
                               ELSE <<"/">>)
  IN [root |-> PathResolve(Cwd, config.dir),
      prefix |-> prefix,
      trimmedPrefix |-> IF prefix = <<"/">> THEN <<"/">> ELSE Pop(prefix),
      indexFile |-> IF config.index.defined THEN config.index.value
                    ELSE <<"index.html">>,
      maxAge |-> config.maxAge]

\* buildStaticHandlers
buildStaticHandlers(staticDefs) ==
  [i \in 1..Len(staticDefs) |-> createStaticHandler(staticDefs[i])]

StaticResult(kind, resp, path) == [kind |-> kind, resp |-> resp, path |-> path]

Max(a, b) == IF a >= b THEN a ELSE b

\* the part of the pathname after the prefix; NoPath when not under it
staticRelative(h, pathname) ==
  IF h.prefix = <<"/">>
    THEN <<IF Len(pathname) > 1 THEN Slice(pathname, 1) ELSE <<>> >>
  ELSE IF StartsWith(pathname, h.prefix) THEN <<Slice(pathname, Len(h.prefix))>>
  ELSE IF pathname = h.trimmedPrefix THEN << <<>> >>
  ELSE NoPath

staticHeadersAlwaysCache(h, target, baseHeaders) ==
  LET h0 == IF baseHeaders.defined THEN NewHeaders(baseHeaders.init) ELSE EmptyHeaders
      n == IF h.maxAge.defined THEN Max(0, h.maxAge.value) ELSE 0
  IN HeadersSet(HeadersSet(HeadersSet(h0, "Content-Type", FileType(target)),
                           "Cache-Control", "public, max-age=" \o ToString(n)),
                "Content-Length", ToString(FileSize(target)))

staticHeaders(h, target, baseHeaders) ==
  LET h0 == IF baseHeaders.defined THEN NewHeaders(baseHeaders.init) ELSE EmptyHeaders
      h1 == IF FileType(target) # "" THEN HeadersSet(h0, "Content-Type", FileType(target))
            ELSE h0
      h2 == IF h.maxAge.defined
              THEN HeadersSet(h1, "Cache-Control",
                              "public, max-age=" \o ToString(Max(0, h.maxAge.value)))
              ELSE h1
  IN HeadersSet(h2, "Content-Length", ToString(FileSize(target)))

staticHandleAnyMethod(h, method, pathname, baseHeaders) ==
  LET rel == staticRelative(h, pathname)
      targetPath == resolveStaticPath(h.root, decodeURIComponent(rel[1]), h.indexFile)
  IN IF rel = NoPath THEN StaticResult("null", NoResponse, NoPath)
     ELSE IF DecodeThrows(rel[1]) THEN StaticResult("throw", NoResponse, NoPath)
     ELSE IF targetPath = NoPath THEN StaticResult("null", NoResponse, NoPath)
     ELSE StaticResult("response",
                       [status |-> 200,
                        headers |-> staticHeaders(h, targetPath, baseHeaders),
                        body |-> FileContent(targetPath), implied |-> "",
                        bodyUsed |-> FALSE],
                       targetPath)

\* one static handler on one request: null, a response, or an exception
staticHandle(h, method, pathname, baseHeaders) ==
  IF method # "GET" /\ method # "HEAD" THEN StaticResult("null", NoResponse, NoPath)
  ELSE LET rel == staticRelative(h, pathname)
       IN IF rel = NoPath THEN StaticResult("null", NoResponse, NoPath)
          ELSE IF DecodeThrows(rel[1]) THEN StaticResult("throw", NoResponse, NoPath)
          ELSE LET decoded == decodeURIComponent(rel[1])
                   targetPath == resolveStaticPath(h.root, decoded, h.indexFile)
               IN IF targetPath = NoPath THEN StaticResult("null", NoResponse, NoPath)
                  ELSE IF ~FileExists(targetPath)
                    THEN StaticResult("null", NoResponse, NoPath)
                  ELSE StaticResult("response",
                         [status |-> 200,
                          headers |-> staticHeaders(h, targetPath, baseHeaders),
                          body |-> IF method = "HEAD" THEN ""
                                   ELSE FileContent(targetPath),
                          implied |-> "", bodyUsed |-> FALSE],
                         targetPath)

----------------------------------------------------------------------------
(* The server *)

VARIABLES
  phase,           \* "boot", "serving", or "configError" (createServer threw)
  options,         \* the HyperServerOptions createServer was called with
  mappedRoutes,    \* the routes handed to Bun.serve
  staticHandlers,  \* the static handlers, in declaration order
  req,             \* per request in flight: where it is and what happened
  heap,            \* the `locals` objects: what each one holds
  jsx,             \* the JSXServerOptions createJSXServer was called with
  call,            \* the last call of an exported helper: arguments and result
  bundle,          \* the client entry createJSXServer generated and built
  componentCache,  \* the Map loadComponent caches components in
  loads,           \* per request: where its call of loadComponent is
  tailwindPluginPromise,  \* the memoised promise of resolveTailwindPlugin
  tailwindImports, \* how often import("bun-plugin-tailwind") was attempted
  callers          \* per caller of resolveTailwindPlugin: where it is

\* the state the JSX runtime keeps besides the server's
runtime == <<componentCache, loads, tailwindPluginPromise, tailwindImports, callers>>

vars == <<phase, options, mappedRoutes, staticHandlers, req, heap, jsx, call, bundle,
          componentCache, loads, tailwindPluginPromise, tailwindImports, callers>>

\* the requests the runtime may hold at once
Slots == {1, 2}

\* the `locals` objects that can be alive at once, one per request in flight;
\* 0 stands for no object
ObjectIds == 1..Cardinality(Slots)

Options(routes, static, notFound, onError, baseHeaders) ==
  [routes |-> routes, static |-> static, notFound |-> notFound,
   onError |-> onError, baseHeaders |-> baseHeaders]

NoOptions == Options(NoRoutes, <<>>, NoEntry, FALSE, NoBase)

\* a JSXPage: how its component is given and its hydrate option
Page(component, hydrate) == [defined |-> TRUE, component |-> component, hydrate |-> hydrate]
NoPage == [defined |-> FALSE, component |-> "", hydrate |-> ""]

\* the JSXServerOptions: pages by route, the not-found page, the user's
\* static configs (none when not defined), the public directory and prefix,
\* and the options handed on to createServer
JSXOptions(pages, notFoundPage, static, publicDir, publicPrefix, onError, baseHeaders) ==
  [defined |-> TRUE, pages |-> pages, notFoundPage |-> notFoundPage, static |-> static,
   publicDir |-> publicDir, publicPrefix |-> publicPrefix, onError |-> onError,
   baseHeaders |-> baseHeaders]

NoStatic == [defined |-> FALSE, defs |-> <<>>]
UserStatic(defs) == [defined |-> TRUE, defs |-> defs]

NoJSX ==
  [defined |-> FALSE, pages |-> [x \in {} |-> NoPage], notFoundPage |-> NoPage,
   static |-> NoStatic, publicDir |-> <<>>, publicPrefix |-> <<>>, onError |-> FALSE,
   baseHeaders |-> NoBase]

\* normalizePrefix
normalizePrefix(prefix) ==
  LET p1 == IF ~StartsWith(prefix, <<"/">>) THEN <<"/">> \o prefix ELSE prefix
  IN IF Len(p1) > 1 /\ EndsWith(p1, <<"/">>) THEN Pop(p1) ELSE p1

\* normalizeComponentSpec: a function, a "path#export" string, {component},
\* {component, module} or {module}; anything else is a TypeError
normalizeComponentSpecThrows(spec) ==
  spec \notin {"function", "string", "component", "component+module", "module"}

normalizeComponentSpec(spec) ==
  [component |-> spec \in {"function", "component", "component+module"},
   reference |-> spec \in {"string", "component+module", "module"}]

ensureHydratableCapabilityNever(hydrate, descriptor) == FALSE

\* ensureHydratableCapability throws
ensureHydratableCapability(hydrate, descriptor) ==
  LET wantsHydration == hydrate = "undefined" \/ hydrate = "true" \/ hydrate = "function"
  IN wantsHydration /\ ~descriptor.reference

mergeStaticGeneratedFirst(staticDefs, generated) == <<generated>> \o staticDefs.defs

\* mergeStatic
mergeStatic(staticDefs, generated) ==
  IF ~staticDefs.defined THEN <<generated>>
  ELSE staticDefs.defs \o <<generated>>

\* prepareJSXEnvironment throws
prepareJSXEnvironmentThrows(j) ==
  \/ DOMAIN j.pages = {}
  \/ \E route \in DOMAIN j.pages :
       \/ normalizeComponentSpecThrows(j.pages[route].component)
       \/ ensureHydratableCapability(j.pages[route].hydrate,
                                     normalizeComponentSpec(j.pages[route].component))
  \/ /\ j.notFoundPage.defined
     /\ \/ normalizeComponentSpecThrows(j.notFoundPage.component)
        \/ ensureHydratableCapability(j.notFoundPage.hydrate,
                                      normalizeComponentSpec(j.notFoundPage.component))

\* prepareJSXEnvironment's staticEntries
staticEntries(j) ==
  mergeStatic(j.static,
              StaticConfig(j.publicDir, Some(normalizePrefix(j.publicPrefix)),
                           NoString, NoNumber))

\* the options createJSXServer calls createServer with
jsxServerOptions(j) ==
  Options(Routes([route \in DOMAIN j.pages |-> RouteEntry("fn", "page", NoResponse, <<>>)]),
          staticEntries(j),
          IF j.notFoundPage.defined THEN Entry("fn", "notFoundPage", NoResponse)
          ELSE NoEntry,
          j.onError, j.baseHeaders)

\* NOT_FOUND_KEY, the key of the not-found page
NOT_FOUND_KEY == <<"__hyperbun_not_found__">>

\* prepareJSXEnvironment's bundleDescriptors: the keys it holds a module
\* reference for
bundleDescriptors(j) ==
  {route \in DOMAIN j.pages : normalizeComponentSpec(j.pages[route].component).reference}
    \cup (IF /\ j.notFoundPage.defined
             /\ normalizeComponentSpec(j.notFoundPage.component).reference
            THEN {NOT_FOUND_KEY} ELSE {})

\* the client entry: whether one was written and built, and the keys its
\* ROUTES table registers
NoBundle == [built |-> FALSE, routes |-> {}]

\* buildClientBundle with createClientEntry: nothing is built for no
\* descriptors; the entry registers every descriptor (Bun.build succeeds)
buildClientBundle(descriptors) ==
  IF descriptors = {} THEN NoBundle
  ELSE [built |-> TRUE, routes |-> descriptors]

\* the modules components are imported from: per export name, the exported
\* component, or "" for an export that is no function; Gone.tsx is not on disk
ModulePaths == {"/app/Home.tsx", "/app/About.tsx", "/app/Gone.tsx"}

ModuleExists(modulePath) == modulePath # "/app/Gone.tsx"

ExportNames == {"default", "Widget", "meta"}

\* module[reference.exportName] of the imported module
ExportOf(modulePath, exportName) ==
  IF exportName = "meta" THEN ""
  ELSE IF exportName = "default" THEN modulePath \o ":default"
  ELSE IF modulePath = "/app/Home.tsx" THEN "Home.tsx:Widget"
  ELSE ""

\* a NormalizedComponent: a component function ("" for none) and a reference
\* (none when modulePath is "")
Descriptor(component, modulePath, exportName) ==
  [component |-> component, modulePath |-> modulePath, exportName |-> exportName]

\* loadComponent's cacheKey
cacheKey(reference) == reference.modulePath \o "#" \o reference.exportName

\* a Map with no entry
EmptyCache == [k \in {} |-> ""]

cacheGetNever(cache, key) == ""

\* cache.get(cacheKey): the entry, or undefined ("")
cacheGet(cache, key) == IF key \in DOMAIN cache THEN cache[key] ELSE ""

\* one call of loadComponent: idle, waiting for the import, returned or threw
IdleLoad ==
  [pc |-> "idle", descriptor |-> Descriptor("", "", ""), cachedAtStart |-> FALSE,
   imported |-> FALSE, got |-> ""]

\* the promise of resolveTailwindPlugin: none yet (null), pending, or
\* fulfilled with the plugin or with null; id tells promises apart
NoPromise == [id |-> 0, state |-> "none", value |-> ""]

resolveTailwindPluginAfresh(promise, attempts) ==
  [promise |-> [id |-> attempts + 1, state |-> "pending", value |-> ""],
   attempts |-> attempts + 1]

\* resolveTailwindPlugin up to its return: the first call starts the import
\* and stores the promise, every call returns the stored promise
resolveTailwindPlugin(promise, attempts) ==
  IF promise.state = "none"
    THEN [promise |-> [id |-> attempts + 1, state |-> "pending", value |-> ""],
          attempts |-> attempts + 1]
    ELSE [promise |-> promise, attempts |-> attempts]

\* what the import of bun-plugin-tailwind may do, and what the promise is
\* fulfilled with: the default export, or null
TailwindImportOutcomes == {"plugin", "no default", "not found", "failed"}

TailwindValue(outcome) == IF outcome = "plugin" THEN "plugin" ELSE "null"

\* a caller of resolveTailwindPlugin (buildClientBundle): before the call,
\* awaiting the promise it was returned, or resumed with its value; found is
\* the state of the stored promise when it called
IdleCaller == [pc |-> "idle", promise |-> 0, found |-> "", got |-> ""]

\* a ResponseInit: an optional status and the headers
ResponseInit(status, headers) == [status |-> status, headers |-> headers]

NoCall == [fn |-> "none", body |-> "", init |-> ResponseInit(NoNumber, EmptyHeaders),
           result |-> NoResponse]

\* new Response(body, init): the status defaults to 200
StatusOf(init) == IF init.status.defined THEN init.status.value ELSE 200

\* a running handler calls html(body, init) or text(body, init)
CallHelper(s, fn, body, init) ==
  /\ req[s].pc = "handler"
  /\ call' = [fn |-> fn, body |-> body, init |-> init,
              result |-> IF fn = "html" THEN html(body, StatusOf(init), init.headers)
                         ELSE text(body, StatusOf(init), init.headers)]
  /\ UNCHANGED <<phase, options, mappedRoutes, staticHandlers, req, heap, jsx, bundle, runtime>>

\* String.prototype.replace with a global pattern: every match, left to
\* right, matches not overlapping; a text is a sequence of characters
RECURSIVE ReplaceAll(_, _, _)
ReplaceAll(s, pat, with) ==
  IF Len(s) < Len(pat) THEN s
  ELSE IF SubSeq(s, 1, Len(pat)) = pat
    THEN with \o ReplaceAll(SubSeq(s, Len(pat) + 1, Len(s)), pat, with)
  ELSE <<s[1]>> \o ReplaceAll(Tail(s), pat, with)

\* JSON.stringify of a string: quoted, quotes and backslashes escaped
RECURSIVE JsonEscape(_)
JsonEscape(t) ==
  IF t = <<>> THEN <<>>
  ELSE (IF t[1] \in {"\\", "\""} THEN <<"\\", t[1]>> ELSE <<t[1]>>) \o JsonEscape(Tail(t))

JsonString(t) == <<"\"">> \o JsonEscape(t) \o <<"\"">>

\* the props getProps returned: none, a string, or a function, for which
\* JSON.stringify gives undefined
NoProps == [kind |-> "undefined", text |-> <<>>]
StringProps(t) == [kind |-> "string", text |-> t]
FunctionProps == [kind |-> "function", text |-> <<>>]

\* serializeProps throws: undefined has no replace
serializePropsThrows(props) == props.kind = "function"

\* serializeProps
serializeProps(props) ==
  ReplaceAll(JsonString(props.text), <<"<">>, <<"\\", "u", "0", "0", "3", "c">>)

sanitizeScriptNot(value) == value

\* sanitizeScript
sanitizeScript(value) ==
  ReplaceAll(ReplaceAll(value, <<"<", "/">>, <<"<", "\\", "/">>),
             <<"-", "-", ">">>, <<"-", "-", "\\", ">">>)

\* HyperBunHydrationScripts: the text of the inline script
bootstrapOf(route, serializedProps) ==
  sanitizeScript(<<"globalThis.__HYPERBUN_ROUTE__=">> \o JsonString(route) \o <<";">>
                   \o (IF serializedProps # <<>>
                         THEN <<"globalThis.__HYPERBUN_PROPS__=">> \o serializedProps
                                \o <<";">>
                         ELSE <<>>))

\* renderPage with the default layout: the props are serialised, the layout
\* renders HyperBunHydrationScripts, which writes the inline script when the
\* page hydrates
\* (the rendering keeps no state: one call per behaviour covers it)
RenderPage(route, props, hydrate) ==
  /\ call = NoCall
  /\ call' =
       IF props.kind # "undefined" /\ serializePropsThrows(props)
         THEN [fn |-> "renderPage", route |-> route, props |-> props,
               hydrate |-> hydrate, threw |-> TRUE, serializedProps |-> <<>>,
               script |-> FALSE, bootstrap |-> <<>>]
         ELSE LET serialized == IF props.kind = "undefined" THEN <<>>
                                ELSE serializeProps(props)
              IN [fn |-> "renderPage", route |-> route, props |-> props,
                  hydrate |-> hydrate, threw |-> FALSE,
                  serializedProps |-> serialized,
                  script |-> hydrate,
                  bootstrap |-> IF hydrate THEN bootstrapOf(route, serialized)
                                ELSE <<>>]
  /\ UNCHANGED <<phase, options, mappedRoutes, staticHandlers, req, heap, jsx, bundle, runtime>>

\* one call of normaliseRelativePath: the argument, the accumulator `safe`
\* when the walk ends, the result, and the result of a second call on it
\* (the function keeps no state: one call per behaviour covers it)
NormaliseRelativePath(relative) ==
  /\ call = NoCall
  /\ call' = [fn |-> "normaliseRelativePath", relative |-> relative,
              safe |-> SafeSegments(Split(relative), <<>>),
              result |-> normaliseRelativePath(relative),
              again |-> normaliseRelativePath(normaliseRelativePath(relative))]
  /\ UNCHANGED <<phase, options, mappedRoutes, staticHandlers, req, heap, jsx, bundle, runtime>>

\* a thrown value: an Error with a message, or any other value
NoError == [kind |-> "none", message |-> ""]
ErrorOf(message) == [kind |-> "Error", message |-> message]
ThrownValue(message) == [kind |-> "value", message |-> message]

\* what the error hook did: not called, returned a Response, returned
\* nothing, or threw
NoHook == [kind |-> "none", resp |-> NoResponse]

IdleReq ==
  [pc |-> "idle", method |-> "", pathname |-> <<>>, staticIdx |-> 0,
   stages |-> <<>>, selected |-> "", returned |-> FALSE, result |-> VUndefined,
   error |-> NoError,
   hook |-> NoHook, response |-> NoResponse, served |-> NoPath,
   handlerCalls |-> 0, hookCalls |-> 0, logged |-> <<>>,
   locals |-> 0, localsAtStart |-> {}]

Init ==
  /\ phase = "boot"
  /\ options = NoOptions
  /\ mappedRoutes = mapRoutes(NoRoutes)
  /\ staticHandlers = <<>>
  /\ req = [s \in Slots |-> IdleReq]
  /\ heap = [o \in ObjectIds |-> {}]
  /\ jsx = NoJSX
  /\ call = NoCall
  /\ bundle = NoBundle
  /\ componentCache = EmptyCache
  /\ loads = [s \in Slots |-> IdleLoad]
  /\ tailwindPluginPromise = NoPromise
  /\ tailwindImports = 0
  /\ callers = [c \in 1..MaxCallers |-> IdleCaller]

\* createServer's body: mapRoutes runs before Bun.serve is called
Serve(opts) ==
  /\ options' = opts
  /\ staticHandlers' = buildStaticHandlers(opts.static)
  /\ IF opts.routes.defined /\ mapRoutesThrows(opts.routes)
       THEN /\ phase' = "configError"
            /\ UNCHANGED mappedRoutes
       ELSE /\ phase' = "serving"
            /\ mappedRoutes' = IF opts.routes.defined THEN mapRoutes(opts.routes)
                               ELSE mappedRoutes

\* createServer(options)
CreateServer(opts) ==
  /\ phase = "boot"
  /\ Serve(opts)
  /\ UNCHANGED <<req, heap, jsx, bundle, runtime, call>>

\* createJSXServer(options): prepareJSXEnvironment runs first and may throw;
\* the client bundle is built (skipClientBuild is false, as it is when the
\* environment does not set it); the pages become routes and createServer
\* gets the merged static configs
CreateJSXServer(j) ==
  /\ phase = "boot"
  /\ jsx' = j
  /\ IF prepareJSXEnvironmentThrows(j)
       THEN /\ phase' = "configError"
            /\ UNCHANGED <<options, mappedRoutes, staticHandlers, bundle>>
       ELSE /\ bundle' = buildClientBundle(bundleDescriptors(j))
            /\ Serve(jsxServerOptions(j))
  /\ UNCHANGED <<req, heap, call, runtime>>

\* a page handler calls loadComponent(descriptor, componentCache): a
\* descriptor with a component returns it, one with no reference throws, a
\* cached component is returned, and otherwise the module is imported
LoadStart(s, descriptor) ==
  /\ loads[s].pc = "idle"
  /\ LET key == cacheKey(descriptor)
         cached == cacheGet(componentCache, key)
         load == [IdleLoad EXCEPT !.descriptor = descriptor,
                                  !.cachedAtStart = key \in DOMAIN componentCache]
     IN loads' = [loads EXCEPT ![s] =
          IF descriptor.component # ""
            THEN [load EXCEPT !.pc = "returned", !.got = descriptor.component]
          ELSE IF descriptor.modulePath = "" THEN [load EXCEPT !.pc = "threw"]
          ELSE IF cached # "" THEN [load EXCEPT !.pc = "returned", !.got = cached]
          ELSE [load EXCEPT !.pc = "importing", !.imported = TRUE]]
  /\ UNCHANGED <<phase, options, mappedRoutes, staticHandlers, req, heap, jsx, call,
                 bundle, componentCache, tailwindPluginPromise, tailwindImports, callers>>

\* the import settles: a missing module or an export that is no function
\* throws; otherwise the component is cached and returned
LoadImported(s) ==
  /\ loads[s].pc = "importing"
  /\ LET reference == loads[s].descriptor
         component == ExportOf(reference.modulePath, reference.exportName)
     IN IF ~ModuleExists(reference.modulePath) \/ component = ""
          THEN /\ loads' = [loads EXCEPT ![s].pc = "threw"]
               /\ UNCHANGED componentCache
          ELSE /\ loads' = [loads EXCEPT ![s].pc = "returned", ![s].got = component]
               /\ componentCache' = (cacheKey(reference) :> component) @@ componentCache
  /\ UNCHANGED <<phase, options, mappedRoutes, staticHandlers, req, heap, jsx, call,
                 bundle, tailwindPluginPromise, tailwindImports, callers>>

\* the page handler goes on with the component, or its request fails
LoadOver(s) ==
  /\ loads[s].pc \in {"returned", "threw"}
  /\ loads' = [loads EXCEPT ![s] = IdleLoad]
  /\ UNCHANGED <<phase, options, mappedRoutes, staticHandlers, req, heap, jsx, call,
                 bundle, componentCache, tailwindPluginPromise, tailwindImports, callers>>

\* caller c calls resolveTailwindPlugin() and awaits what it returns
TailwindCall(c) ==
  /\ callers[c].pc = "idle"
  /\ LET made == resolveTailwindPlugin(tailwindPluginPromise, tailwindImports)
     IN /\ tailwindPluginPromise' = made.promise
        /\ tailwindImports' = made.attempts
        /\ callers' = [callers EXCEPT ![c] =
                         [pc |-> "awaiting", promise |-> made.promise.id,
                          found |-> tailwindPluginPromise.state, got |-> ""]]
  /\ UNCHANGED <<phase, options, mappedRoutes, staticHandlers, req, heap, jsx, call,
                 bundle, componentCache, loads>>

\* the import of bun-plugin-tailwind settles and the promise is fulfilled
TailwindImportSettles(outcome) ==
  /\ tailwindPluginPromise.state = "pending"
  /\ tailwindPluginPromise' =
       [tailwindPluginPromise EXCEPT !.state = "fulfilled", !.value = TailwindValue(outcome)]
  /\ UNCHANGED <<phase, options, mappedRoutes, staticHandlers, req, heap, jsx, call,
                 bundle, componentCache, loads, tailwindImports, callers>>

\* caller c resumes with the value of the promise it awaits
TailwindResume(c) ==
  /\ callers[c].pc = "awaiting"
  /\ callers[c].promise = tailwindPluginPromise.id
  /\ tailwindPluginPromise.state = "fulfilled"
  /\ callers' = [callers EXCEPT ![c].pc = "resumed", ![c].got = tailwindPluginPromise.value]
  /\ UNCHANGED <<phase, options, mappedRoutes, staticHandlers, req, heap, jsx, call,
                 bundle, componentCache, loads, tailwindPluginPromise, tailwindImports>>

\* a request arrives at the server
Receive(s, method, raw) ==
  /\ phase = "serving"
  /\ req[s].pc = "idle"
  /\ req' = [req EXCEPT ![s] =
               [IdleReq EXCEPT !.pc = "routing", !.method = method,
                               !.pathname = UrlPathname(Expand(raw))]]
  /\ UNCHANGED <<phase, options, mappedRoutes, staticHandlers, heap, jsx, bundle, runtime, call>>

Generic500(baseHeaders) ==
  applyBaseHeaders(NewResponse("Internal Server Error", TextPlain, 500, EmptyHeaders),
                   baseHeaders)

Generic404(baseHeaders) ==
  applyBaseHeaders(NewResponse("Not Found", TextPlain, 404, EmptyHeaders), baseHeaders)

Done(r, response) == [r EXCEPT !.pc = "done", !.response = response]

matchedRouteNever(pathname) == FALSE

\* Bun.serve's router: an exact pattern of `routes` that the path matches
matchedRoute(pathname) == options.routes.defined /\ pathname \in DOMAIN mappedRoutes

\* Bun.serve: a request that matches a route goes to the route's handler, any
\* other request goes to the fetch handler, which starts with the static handlers
Route(s) ==
  /\ req[s].pc = "routing"
  /\ req' = [req EXCEPT ![s] =
               IF matchedRoute(req[s].pathname)
                 THEN [@ EXCEPT !.pc = "route", !.stages = Append(@, "route")]
                 ELSE [@ EXCEPT !.pc = "static", !.staticIdx = 1]]
  /\ UNCHANGED <<phase, options, mappedRoutes, staticHandlers, heap, jsx, bundle, runtime, call>>

localsFactoryShared(h, inUse) == [ref |-> 1, heap |-> h]

\* localsFactory: Object.create(null) gives an object no live reference
\* points at, holding nothing
localsFactory(h, inUse) ==
  LET ref == CHOOSE o \in ObjectIds \ inUse : \A q \in ObjectIds \ inUse : o <= q
  IN [ref |-> ref, heap |-> [h EXCEPT ![ref] = {}]]

\* the objects the contexts of the requests in flight hold
LiveLocals == {req[t].locals : t \in Slots} \ {0}

\* executeHandler up to `await handler(ctx)`: createContext with the new
\* locals object, then the call
CallHandler(r, name, pc, made) ==
  [r EXCEPT !.pc = pc, !.selected = name, !.handlerCalls = @ + 1,
            !.stages = Append(@, "handler"),
            !.locals = made.ref, !.localsAtStart = made.heap[made.ref]]

\* the native route handler createRouteHandler returned; the pre-built
\* responses it closes over are the objects of mappedRoutes (options.routes
\* keeps them as they were configured)
RouteInvoke(s) ==
  /\ req[s].pc = "route"
  /\ LET r == req[s]
         h == mappedRoutes[r.pathname]
         selected == selectMethod(h.methods, Upper(r.method))
         made == localsFactory(heap, LiveLocals)
         calls == \/ h.kind = "fn"
                  \/ h.kind = "table" /\ Truthy(selected) /\ selected.kind = "fn"
         key == IF Upper(r.method) \in DOMAIN h.methods THEN Upper(r.method) ELSE "ALL"
     IN /\ req' = [req EXCEPT ![s] =
             IF h.kind = "response"
               THEN Done(r, cloneResponse(h.resp, options.baseHeaders))
             ELSE IF h.kind = "fn" THEN CallHandler(r, h.name, "handler", made)
             ELSE IF ~Truthy(selected)
               THEN Done([r EXCEPT !.stages = Append(@, "405")],
                         methodNotAllowed(h.allowHeader, options.baseHeaders))
             ELSE IF selected.kind = "response"
               THEN Done([r EXCEPT !.selected = selected.name],
                         cloneResponse(selected.resp, options.baseHeaders))
             ELSE CallHandler(r, selected.name, "handler", made)]
        /\ heap' = IF calls THEN made.heap ELSE heap
        /\ mappedRoutes' =
             IF h.kind = "response"
               THEN [mappedRoutes EXCEPT ![r.pathname].resp =
                       cloneSource(@, options.baseHeaders)]
             ELSE IF h.kind = "table" /\ Truthy(selected) /\ selected.kind = "response"
               THEN [mappedRoutes EXCEPT ![r.pathname].methods[key].resp =
                       cloneSource(@, options.baseHeaders)]
             ELSE mappedRoutes
  /\ UNCHANGED <<phase, options, staticHandlers, jsx, bundle, runtime, call>>

\* logError(error)
logError(r, error) == [r EXCEPT !.logged = Append(@, error)]

CatchRetry(r, error) ==
  IF r.handlerCalls < 2
    THEN [r EXCEPT !.pc = IF Len(r.stages) > 0 /\ r.stages[1] = "route"
                            THEN "handler" ELSE "notFound",
                   !.handlerCalls = @ + 1]
  ELSE Done(logError([r EXCEPT !.error = error], error),
            NewResponse("Internal Server Error", TextPlain, 500, EmptyHeaders))

\* the catch block of executeHandler and of fetchHandler, up to `await onError`
Catch(r, error) ==
  IF options.onError
    THEN [r EXCEPT !.pc = "onError", !.error = error, !.hookCalls = @ + 1,
                   !.stages = Append(@, "onError")]
    ELSE Done(logError([r EXCEPT !.error = error], error),
              Generic500(options.baseHeaders))

Return(v) == [kind |-> "return", value |-> v, error |-> NoError]
Throw(e) == [kind |-> "throw", value |-> VUndefined, error |-> e]

SettleForce404(r, outcome) ==
  IF outcome.kind = "throw" THEN Catch(r, outcome.error)
  ELSE LET got == [r EXCEPT !.returned = TRUE, !.result = outcome.value]
       IN IF normaliseThrows(outcome.value)
            THEN Catch(got, ErrorOf("JSON.stringify cannot serialize cyclic structures."))
            ELSE Done(got, [normaliseResponse(outcome.value, options.baseHeaders)
                              EXCEPT !.status = IF r.pc = "notFound" THEN 404 ELSE @])

SettleNormaliseEscapes(r, outcome) ==
  IF outcome.kind = "throw" THEN Catch(r, outcome.error)
  ELSE LET got == [r EXCEPT !.returned = TRUE, !.result = outcome.value]
       IN IF normaliseThrows(outcome.value)
            THEN [got EXCEPT !.pc = "escaped",
                             !.error = ErrorOf("JSON.stringify cannot serialize cyclic structures.")]
            ELSE Done(got, normaliseResponse(outcome.value, options.baseHeaders))

\* after `await handler(ctx)`: normaliseResponse, or the catch block
Settle(r, outcome) ==
  IF outcome.kind = "throw" THEN Catch(r, outcome.error)
  ELSE LET got == [r EXCEPT !.returned = TRUE, !.result = outcome.value]
       IN IF normaliseThrows(outcome.value)
            THEN Catch(got, ErrorOf("JSON.stringify cannot serialize cyclic structures."))
            ELSE Done(got, normaliseResponse(outcome.value, options.baseHeaders))

\* a running handler writes to ctx.locals; what it writes names its request
LocalsWrite(s) ==
  /\ req[s].pc \in {"handler", "notFound"}
  /\ s \notin heap[req[s].locals]
  /\ heap' = [heap EXCEPT ![req[s].locals] = @ \cup {s}]
  /\ UNCHANGED <<phase, options, mappedRoutes, staticHandlers, req, jsx, bundle, runtime, call>>

\* executeHandler: the route's handler returns or throws
HandlerReturn(s, outcome) ==
  /\ req[s].pc = "handler"
  /\ req' = [req EXCEPT ![s] = Settle(req[s], outcome)]
  /\ UNCHANGED <<phase, options, mappedRoutes, staticHandlers, heap, jsx, bundle, runtime, call>>

\* fetchHandler: one turn of the loop over the static handlers
StaticStep(s) ==
  /\ req[s].pc = "static"
  /\ req[s].staticIdx <= Len(staticHandlers)
  /\ LET r == req[s]
         out == staticHandle(staticHandlers[r.staticIdx], r.method, r.pathname,
                             options.baseHeaders)
         tried == [r EXCEPT !.stages = Append(@, "static" \o ToString(r.staticIdx))]
     IN req' = [req EXCEPT ![s] =
          IF out.kind = "response"
            THEN Done([tried EXCEPT !.served = out.path], out.resp)
          ELSE IF out.kind = "throw"
            THEN [tried EXCEPT !.pc = "escaped",
                               !.error = ErrorOf("URI malformed")]
          ELSE [tried EXCEPT !.staticIdx = @ + 1]]
  /\ UNCHANGED <<phase, options, mappedRoutes, staticHandlers, heap, jsx, bundle, runtime, call>>

NotFoundAlways404(s) ==
  /\ req[s].pc = "static"
  /\ req[s].staticIdx > Len(staticHandlers)
  /\ req' = [req EXCEPT ![s] =
               Done([req[s] EXCEPT !.stages = Append(@, "404")],
                    Generic404(options.baseHeaders))]
  /\ UNCHANGED <<phase, options, mappedRoutes, staticHandlers, heap, jsx, bundle, runtime, call>>

\* fetchHandler after the loop: the notFound entry, or the generic 404
NotFound(s) ==
  /\ req[s].pc = "static"
  /\ req[s].staticIdx > Len(staticHandlers)
  /\ LET r == req[s]
         made == localsFactory(heap, LiveLocals)
     IN /\ req' = [req EXCEPT ![s] =
             IF ~Truthy(options.notFound)
               THEN Done([r EXCEPT !.stages = Append(@, "404")],
                         Generic404(options.baseHeaders))
             ELSE IF options.notFound.kind = "response"
               THEN Done([r EXCEPT !.stages = Append(@, "notFound"),
                                   !.locals = made.ref],
                         cloneResponse(options.notFound.resp, options.baseHeaders))
             ELSE CallHandler([r EXCEPT !.stages = Append(@, "notFound")],
                              options.notFound.name, "notFound", made)]
        /\ heap' = IF Truthy(options.notFound) THEN made.heap ELSE heap
        /\ options' =
             IF options.notFound.kind = "response"
               THEN [options EXCEPT !.notFound.resp = cloneSource(@, options.baseHeaders)]
               ELSE options
  /\ UNCHANGED <<phase, mappedRoutes, staticHandlers, jsx, bundle, runtime, call>>

\* resolveEntry: the notFound handler returns or throws
NotFoundReturn(s, outcome) ==
  /\ req[s].pc = "notFound"
  /\ req' = [req EXCEPT ![s] = Settle(req[s], outcome)]
  /\ UNCHANGED <<phase, options, mappedRoutes, staticHandlers, heap, jsx, bundle, runtime, call>>

HookResponse(resp) == [kind |-> "response", resp |-> resp]
HookNothing == [kind |-> "nothing", resp |-> NoResponse]
HookThrow == [kind |-> "throw", resp |-> NoResponse]

handleErrorForce500(r, outcome) ==
  Done([r EXCEPT !.hook = outcome], Generic500(options.baseHeaders))

\* handleError after `await onError(error, ctx)`, and what its caller does
\* with the result
handleError(r, outcome) ==
  LET h == [r EXCEPT !.hook = outcome]
  IN IF outcome.kind = "response"
       THEN Done(h, applyBaseHeaders(outcome.resp, options.baseHeaders))
     ELSE IF outcome.kind = "throw"
       THEN Done(logError(h, ErrorOf("hook failed")), Generic500(options.baseHeaders))
     ELSE Done(logError(h, r.error), Generic500(options.baseHeaders))

\* the error hook returns or throws
HookReturn(s, outcome) ==
  /\ req[s].pc = "onError"
  /\ req' = [req EXCEPT ![s] = handleError(req[s], outcome)]
  /\ UNCHANGED <<phase, options, mappedRoutes, staticHandlers, heap, jsx, bundle, runtime, call>>

\* the runtime sends the response (or, for an exception that escaped the
\* fetch handler, its own error response) and the request is over
Respond(s) ==
  /\ req[s].pc \in {"done", "escaped"}
  /\ req' = [req EXCEPT ![s] = IdleReq]
  /\ UNCHANGED <<phase, options, mappedRoutes, staticHandlers, heap, jsx, bundle, runtime, call>>

----------------------------------------------------------------------------
(* Inputs *)

RequestMethods == {"GET", "HEAD", "POST"}

\* every raw request path of at most n tokens after the leading slash
RECURSIVE TokenSeqs(_)
TokenSeqs(n) ==
  IF n = 0 THEN {<<>>}
  ELSE LET shorter == TokenSeqs(n - 1)
       IN shorter \cup {Append(t, k) : t \in {u \in shorter : Len(u) = n - 1},
                                       k \in PathTokens}

RawPaths(n) == {<<"/">> \o t : t \in TokenSeqs(n)}

PatternA == <<"/", "a">>

\* the request paths of the whole-server specification
ServerPaths == {<<"/">>, PatternA, <<"/", "%ZZ">>, <<"/", "..", "%2F", "a">>}

HandlerOutcomes ==
  {Return(v) : v \in HandlerValues}
    \cup {Throw(ErrorOf("boom")), Throw(ThrownValue("oops"))}

\* json({message: "handled"}, {status: 555})
Handled == json("{\"message\":\"handled\"}", 555, EmptyHeaders)

HandledOwnHeader ==
  NewResponse("handled", TextPlain, 555, ("X-Powered-By" :> "hook"))

HookOutcomes ==
  {HookResponse(Handled), HookResponse(HandledOwnHeader), HookNothing, HookThrow}

BaseChoices ==
  {NoBase, Base(("X-Powered-By" :> "hyperbun") @@ ("Content-Type" :> "base/type"))}

WwwStatic == StaticConfig(<<"www">>, NoString, NoString, Some(60))
UpStatic == StaticConfig(<<"/", "srv", "/", "up">>, NoString, NoString, NoNumber)

RouteFn == RouteEntry("fn", "route", NoResponse, <<>>)
RouteResponse ==
  RouteEntry("response", "route",
             NewResponse("pong", TextPlain, 200, ("X-Powered-By" :> "route")), <<>>)
RouteTable(table) == RouteEntry("table", "", NoResponse, table)
RouteOther == RouteEntry("other", "", NoResponse, <<>>)

\* the value of table key k: a handler, a Response, or undefined
KeyValue(kind, k) ==
  Entry(kind, k, IF kind = "response" THEN NewResponse(k, TextPlain, 200, EmptyHeaders)
                 ELSE NoResponse)

NotFoundChoices ==
  {NoEntry, Entry("fn", "notFound", NoResponse),
   Entry("response", "notFound", NewResponse("nothing here", TextPlain, 404, EmptyHeaders))}

ServerOptions ==
  {Options(r, st, nf, oe, b) :
     r \in {NoRoutes, Routes(PatternA :> RouteFn), Routes(PatternA :> RouteResponse),
            Routes(PatternA :> RouteTable(<<[key |-> "GET", value |-> KeyValue("fn", "GET")],
                                            [key |-> "POST",
                                             value |-> KeyValue("response", "POST")]>>))},
     st \in {<<>>, <<WwwStatic>>, <<UpStatic, WwwStatic>>},
     nf \in NotFoundChoices,
     oe \in BOOLEAN,
     b \in BaseChoices}

\* static configs: the root, with and without a prefix, and index file names
\* that stay in the root or leave it
StaticDefs ==
  { WwwStatic,
    UpStatic,
    StaticConfig(<<"www">>, Some(<<"a">>), NoString, NoNumber),
    StaticConfig(<<"www">>, Some(<<"/", "a", "/">>), Some(<<".", ".", "/", "index.html">>),
                 Some(0 - 5)),
    StaticConfig(<<"www">>, NoString, Some(<<".", ".", "/", "s">>), NoNumber),
    StaticConfig(<<"www">>, NoString, Some(<<"/", "srv", "/", "s">>), NoNumber),
    StaticConfig(<<"/", "srv", "/", "up">>, Some(<<"/", "a">>),
                 Some(<<".", ".", "/", ".", ".", "/", "s">>), Some(60)),
    StaticConfig(<<"/", "srv", "/", "up">>, NoString, Some(<<"a">>), NoNumber) }

StaticOptions ==
  {Options(NoRoutes, <<d>>, NoEntry, FALSE, NoBase) : d \in StaticDefs}

TableKeys == {"GET", "get", "POST", "ALL", "TRACE"}
ValueKinds == {"fn", "response", "absent"}

\* every method table of at most n keys, keys distinct, in declaration order
RECURSIVE MethodTables(_)
MethodTables(n) ==
  IF n = 0 THEN {<<>>}
  ELSE LET shorter == MethodTables(n - 1)
       IN shorter \cup
            {Append(t, [key |-> k, value |-> KeyValue(kind, k)]) :
               t \in {u \in shorter : Len(u) = n - 1},
               k \in TableKeys, kind \in ValueKinds}

DistinctKeys(t) == \A i, j \in 1..Len(t) : t[i].key = t[j].key => i = j

TableOptions ==
  {Options(Routes(PatternA :> e), <<>>, NoEntry, FALSE, b) :
     e \in {RouteTable(t) : t \in {u \in MethodTables(MaxTableLen) : DistinctKeys(u)}}
             \cup {RouteOther},
     b \in BaseChoices}

TableOutcomes == {Return(VString("hello")), Throw(ErrorOf("boom"))}

----------------------------------------------------------------------------
(* Specifications *)

\* the whole server, one request at a time
Next ==
  \/ \E o \in ServerOptions : CreateServer(o)
  \/ \E m \in RequestMethods, p \in ServerPaths : Receive(1, m, p)
  \/ Route(1)
  \/ RouteInvoke(1)
  \/ \E out \in HandlerOutcomes : HandlerReturn(1, out)
  \/ StaticStep(1)
  \/ NotFound(1)
  \/ \E out \in HandlerOutcomes : NotFoundReturn(1, out)
  \/ \E out \in HookOutcomes : HookReturn(1, out)
  \/ Respond(1)

Spec == Init /\ [][Next]_vars

\* static file serving on every request path up to MaxPathLen
NextStatic ==
  \/ \E o \in StaticOptions : CreateServer(o)
  \/ \E m \in RequestMethods, p \in RawPaths(MaxPathLen) : Receive(1, m, p)
  \/ Route(1)
  \/ StaticStep(1)
  \/ NotFound(1)
  \/ Respond(1)

SpecStatic == Init /\ [][NextStatic]_vars

\* one route with every method table up to MaxTableLen keys
NextTable ==
  \/ \E o \in TableOptions : CreateServer(o)
  \/ \E m \in RequestMethods : Receive(1, m, PatternA)
  \/ Route(1)
  \/ RouteInvoke(1)
  \/ \E out \in TableOutcomes : HandlerReturn(1, out)
  \/ Respond(1)

SpecTable == Init /\ [][NextTable]_vars

\* handlers that write to ctx.locals, two requests in flight
LocalsOptions ==
  {Options(Routes(PatternA :> e), <<>>, nf, oe, NoBase) :
     e \in {RouteFn,
            RouteTable(<<[key |-> "GET", value |-> KeyValue("fn", "GET")],
                         [key |-> "ALL", value |-> KeyValue("fn", "ALL")]>>)},
     nf \in NotFoundChoices \ {NoEntry},
     oe \in BOOLEAN}

LocalsOutcomes == {Return(VString("hello")), Throw(ErrorOf("boom"))}

NextLocals ==
  \/ \E o \in LocalsOptions : CreateServer(o)
  \/ \E s \in Slots, m \in {"GET", "POST"}, p \in {<<"/">>, PatternA} : Receive(s, m, p)
  \/ \E s \in Slots : Route(s)
  \/ \E s \in Slots : RouteInvoke(s)
  \/ \E s \in Slots : LocalsWrite(s)
  \/ \E s \in Slots, out \in LocalsOutcomes : HandlerReturn(s, out)
  \/ \E s \in Slots : NotFound(s)
  \/ \E s \in Slots, out \in LocalsOutcomes : NotFoundReturn(s, out)
  \/ \E s \in Slots, out \in {HookNothing, HookResponse(Handled)} : HookReturn(s, out)
  \/ \E s \in Slots : Respond(s)

SpecLocals == Init /\ [][NextLocals]_vars

\* JSX servers: one page at "/", with every way to give its component and
\* its hydrate option, a not-found page, and user static configs that
\* overlap each other and the generated public-directory config
HomeRoute == <<"/">>

ComponentSpecs == {"function", "string", "component", "component+module", "module", "other"}

HydrateChoices == {"undefined", "true", "false", "function"}

JSXPages ==
  {[x \in {} |-> NoPage]}
    \cup {HomeRoute :> Page(c, h) : c \in ComponentSpecs, h \in HydrateChoices}

JSXNotFoundPages ==
  {NoPage, Page("function", "false"), Page("function", "undefined"), Page("string", "true")}

JSXStatics ==
  {NoStatic, UserStatic(<<WwwStatic>>), UserStatic(<<UpStatic, WwwStatic>>),
   UserStatic(<<WwwStatic, UpStatic>>)}

JSXChoices ==
  {JSXOptions(pages, nf, st, dir, prefix, FALSE, NoBase) :
     pages \in JSXPages, nf \in JSXNotFoundPages, st \in JSXStatics,
     dir \in {<<"www">>, <<"/", "srv", "/", "up">>},
     prefix \in {<<"/">>, <<"a", "/">>}}

\* what a page handler does: it renders the page, or it throws
PageOutcomes == {Return(VResponse(HelloPage)), Throw(ErrorOf("boom"))}

JSXPaths == {<<"/">>, PatternA, <<"/", "a", "/", "a">>}

NextJSX ==
  \/ \E j \in JSXChoices : CreateJSXServer(j)
  \/ \E m \in {"GET", "POST"}, p \in JSXPaths : Receive(1, m, p)
  \/ Route(1)
  \/ RouteInvoke(1)
  \/ \E out \in PageOutcomes : HandlerReturn(1, out)
  \/ StaticStep(1)
  \/ NotFound(1)
  \/ \E out \in PageOutcomes : NotFoundReturn(1, out)
  \/ Respond(1)

SpecJSX == Init /\ [][NextJSX]_vars

\* handlers that answer with html(body, init) or text(body, init)
HelperBodies == {"<h1>Hello</h1>", "hi", ""}

HelperInits ==
  {ResponseInit(st, h) :
     st \in {NoNumber, Some(201), Some(404)},
     h \in {EmptyHeaders, "Content-Type" :> "text/x-own", "content-type" :> "text/x-own",
            "X-Powered-By" :> "handler",
            ("Content-Type" :> "text/x-own") @@ ("X-Powered-By" :> "handler")}}

HelperOptions ==
  {Options(Routes(PatternA :> RouteFn), <<>>, NoEntry, FALSE, b) : b \in BaseChoices}

NextHelpers ==
  \/ \E o \in HelperOptions : CreateServer(o)
  \/ Receive(1, "GET", PatternA)
  \/ Route(1)
  \/ RouteInvoke(1)
  \/ \E fn \in {"html", "text"}, body \in HelperBodies, init \in HelperInits :
       CallHelper(1, fn, body, init)
  \/ call.fn # "none" /\ HandlerReturn(1, Return(VResponse(call.result)))
  \/ Respond(1)

SpecHelpers == Init /\ [][NextHelpers]_vars

\* the characters that matter to the escaping, and one that does not
ScriptChars == {"<", "/", "-", ">", "\\", "a"}

RECURSIVE Texts(_)
Texts(n) ==
  IF n = 0 THEN {<<>>}
  ELSE LET shorter == Texts(n - 1)
       IN shorter \cup {Append(t, c) : t \in {u \in shorter : Len(u) = n - 1},
                                       c \in ScriptChars}

\* every route key and props value of MaxTextLen characters together
NextRender ==
  \E route \in Texts(MaxTextLen) :
    \E props \in {NoProps, FunctionProps}
                  \cup {StringProps(t) : t \in Texts(MaxTextLen - Len(route))} :
      \E hydrate \in BOOLEAN : RenderPage(route, props, hydrate)

SpecRender == Init /\ [][NextRender]_vars

\* the segments relative paths are written with: empty, ".", "..", names, and
\* names that begin with dots
PathSegments == {<<>>, Dot, DotDot, <<"a">>, <<"b">>, <<".", ".", "a">>, <<".", ".", ".">>}

RECURSIVE SegmentSeqs(_)
SegmentSeqs(n) ==
  IF n = 0 THEN {<<>>}
  ELSE LET shorter == SegmentSeqs(n - 1)
       IN shorter \cup {Append(t, g) : t \in {u \in shorter : Len(u) = n - 1},
                                       g \in PathSegments}

\* normaliseRelativePath on every relative path of at most MaxSegments segments
NextPath ==
  \E segs \in SegmentSeqs(MaxSegments) : NormaliseRelativePath(Join(segs))

SpecPath == Init /\ [][NextPath]_vars

\* the descriptors normalizeComponentSpec gives: a component, a reference, or
\* both
LoadDescriptors ==
  {Descriptor("Inline", "", ""), Descriptor("Inline", "/app/Home.tsx", "default")}
    \cup {Descriptor("", m, e) : m \in ModulePaths, e \in ExportNames}

\* page requests that load their components, two at a time
NextLoad ==
  \/ \E s \in Slots, d \in LoadDescriptors : LoadStart(s, d)
  \/ \E s \in Slots : LoadImported(s)
  \/ \E s \in Slots : LoadOver(s)

SpecLoad == Init /\ [][NextLoad]_vars

\* MaxCallers builds that resolve the Tailwind plugin, in any order
NextTailwind ==
  \/ \E c \in 1..MaxCallers : TailwindCall(c)
  \/ \E outcome \in TailwindImportOutcomes : TailwindImportSettles(outcome)
  \/ \E c \in 1..MaxCallers : TailwindResume(c)

SpecTailwind == Init /\ [][NextTailwind]_vars

----------------------------------------------------------------------------
(* Properties *)

Has(seq, x) == \E i \in 1..Len(seq) : seq[i] = x

IsPrefix(p, q) == Len(p) <= Len(q) /\ SubSeq(q, 1, Len(p)) = p

\* the request matches a pattern of the configured route table
RouteConfigured(r) ==
  options.routes.defined /\ r.pathname \in DOMAIN options.routes.table

StaticKind(i, r) ==
  staticHandle(staticHandlers[i], r.method, r.pathname, options.baseHeaders).kind

StageOfStatic(i) == "static" \o ToString(i)

(* C1: every file path the static handler resolves and serves lies lexically
   within the configured root: the root's segments are a prefix of the
   path's, and the path holds no "." or ".." segment; this for every root,
   prefix and index file name, and every request path, with ".." segments
   percent-encoded or not. *)
C1_ServedWithinRoot ==
  \A s \in Slots :
    req[s].served # NoPath =>
      LET root == staticHandlers[req[s].staticIdx].root
      IN /\ IsPrefix(root, req[s].served)
         /\ \A i \in 1..Len(req[s].served) :
              req[s].served[i] \notin {<<>>, Dot, DotDot}

\* a request whose path holds an encoded slash after a ".." was served a file
C1_Witness ==
  \E s \in Slots :
    /\ req[s].pc = "done"
    /\ req[s].served # NoPath
    /\ \E i \in 1..(Len(req[s].pathname) - 2) :
         /\ req[s].pathname[i] = "."
         /\ req[s].pathname[i + 1] = "."
         /\ req[s].pathname[i + 2] = "%2F"

(* C2, as claimed: route-table dispatch runs only after every static handler
   was tried and produced no response, so a request that matches both a
   static file and a route pattern is served the static file. *)
C2_StaticBeforeRoutes ==
  \A s \in Slots :
    LET r == req[s]
    IN (/\ r.pc = "done"
        /\ \E i \in 1..Len(staticHandlers) :
             /\ StaticKind(i, r) = "response"
             /\ \A j \in 1..(i - 1) : StaticKind(j, r) = "null") =>
         /\ r.served # NoPath
         /\ ~Has(r.stages, "route")

(* C2, amended: a request that matches a route pattern goes to the route and
   no static handler, not-found entry or generic 404 is reached; any other
   request tries the static handlers in declaration order and returns the
   first response one produces; the not-found entry runs only when no route
   matched and every static handler produced nothing, and the generic 404
   only when, besides, no not-found entry is configured. *)
C2_StageOrder ==
  \A s \in Slots :
    LET r == req[s]
        n == Len(staticHandlers)
    IN r.pc \notin {"idle", "routing"} =>
         /\ RouteConfigured(r) =>
              /\ Len(r.stages) > 0
              /\ r.stages[1] = "route"
              /\ \A j \in 1..Len(r.stages) :
                   r.stages[j] \in {"route", "handler", "onError", "405"}
         /\ ~RouteConfigured(r) => ~Has(r.stages, "route")
         /\ \A i \in 1..n :
              Has(r.stages, StageOfStatic(i)) =>
                /\ i <= Len(r.stages)
                /\ r.stages[i] = StageOfStatic(i)
                /\ \A j \in 1..(i - 1) : StaticKind(j, r) = "null"
         /\ r.served # NoPath =>
              /\ r.pc = "done"
              /\ r.staticIdx \in 1..n
              /\ Len(r.stages) = r.staticIdx
              /\ r.stages[r.staticIdx] = StageOfStatic(r.staticIdx)
              /\ StaticKind(r.staticIdx, r) = "response"
         /\ (r.pc = "done" /\ ~RouteConfigured(r)
               /\ \E i \in 1..n : StaticKind(i, r) # "null") =>
              r.served # NoPath
         /\ (Has(r.stages, "notFound") \/ Has(r.stages, "404")) =>
              /\ ~RouteConfigured(r)
              /\ Len(r.stages) > n
              /\ \A i \in 1..n :
                   r.stages[i] = StageOfStatic(i) /\ StaticKind(i, r) = "null"
              /\ r.stages[n + 1] \in {"notFound", "404"}
              /\ r.stages[n + 1] = "notFound" <=> Truthy(options.notFound)

\* a GET that matches a static file and a route pattern was answered by the route
C2_Witness ==
  \E s \in Slots :
    /\ req[s].pc = "done"
    /\ req[s].stages = <<"route", "handler">>
    /\ Len(staticHandlers) > 0
    /\ \E i \in 1..Len(staticHandlers) : StaticKind(i, req[s]) = "response"

(* C3: when a handler throws and the error hook returns a response, that
   response is the final response: status, body and the headers it carries
   are kept, and every other header of the final response is a base header
   with its base value. *)
C3_HookResponseIsFinal ==
  \A s \in Slots :
    LET r == req[s]
        base == NewHeaders(options.baseHeaders.init)
    IN (r.pc = "done" /\ r.hook.kind = "response") =>
         /\ r.error.kind # "none"
         /\ r.response.status = r.hook.resp.status
         /\ r.response.body = r.hook.resp.body
         /\ \A n \in DOMAIN r.hook.resp.headers :
              /\ n \in DOMAIN r.response.headers
              /\ r.response.headers[n] = r.hook.resp.headers[n]
         /\ \A n \in DOMAIN r.response.headers \ DOMAIN r.hook.resp.headers :
              /\ options.baseHeaders.defined
              /\ n \in DOMAIN base
              /\ r.response.headers[n] = base[n]

\* the hook answered 555 with its own X-Powered-By; base headers filled the rest
C3_Witness ==
  \E s \in Slots :
    /\ req[s].pc = "done"
    /\ req[s].error = ErrorOf("boom")
    /\ req[s].hook.kind = "response"
    /\ req[s].response.status = 555
    /\ options.baseHeaders.defined
    /\ req[s].response.headers["x-powered-by"] = "hook"
    /\ req[s].response.headers["content-type"] = "base/type"

(* C4: when a handler throws and no error hook is configured, or the hook
   throws, or the hook returns nothing, the final response is the generic
   500 with the base headers; the handler ran once and the hook at most
   once (exactly once when configured). *)
C4_Generic500 ==
  \A s \in Slots :
    LET r == req[s]
        base == IF options.baseHeaders.defined
                  THEN NewHeaders(options.baseHeaders.init) ELSE EmptyHeaders
    IN /\ r.handlerCalls <= 1
       /\ r.hookCalls <= 1
       /\ (r.pc = "done" /\ r.error.kind # "none"
             /\ r.hook.kind \in {"none", "nothing", "throw"}) =>
            /\ r.response.status = 500
            /\ r.response.body = "Internal Server Error"
            /\ r.response.headers = base
            /\ r.handlerCalls = 1
            /\ r.hookCalls = (IF options.onError THEN 1 ELSE 0)
            /\ (r.hook.kind = "none") <=> ~options.onError

\* the hook threw, and the request ended with the generic 500 and base headers
C4_Witness ==
  \E s \in Slots :
    /\ req[s].pc = "done"
    /\ req[s].error.kind # "none"
    /\ req[s].hook.kind = "throw"
    /\ req[s].response.status = 500
    /\ options.baseHeaders.defined
    /\ req[s].response.headers["x-powered-by"] = "hyperbun"
    /\ req[s].handlerCalls = 1

(* C5, as claimed: no exception raised in any stage of request processing
   (static handlers, route dispatch, not-found fallback) escapes the
   orchestrator: the request ends with a response of the library. *)
C5_NothingEscapes ==
  \A s \in Slots : req[s].pc # "escaped"

\* the method table configured for the route the request matched
TableOf(r) == options.routes.table[r.pathname].table

OnTableRoute(r) ==
  /\ r.pc \notin {"idle", "routing", "route"}
  /\ RouteConfigured(r)
  /\ options.routes.table[r.pathname].kind = "table"

\* the positions of a table whose key has a handler or a response
UsableKeys(t) == {i \in 1..Len(t) : t[i].value.kind \in {"fn", "response"}}

ExactKeys(t, verb) == {i \in UsableKeys(t) : Upper(t[i].key) = verb}

WildcardKeys(t) == {i \in UsableKeys(t) : Upper(t[i].key) = "ALL"}

\* the verbs a table declares with a value, the wildcard left out
DeclaredVerbs(t) == {Upper(t[i].key) : i \in UsableKeys(t)} \ {"ALL"}

FirstKey(t, verb) ==
  CHOOSE i \in ExactKeys(t, verb) : \A j \in ExactKeys(t, verb) : i <= j

RECURSIVE CommaList(_)
CommaList(a) ==
  IF Len(a) = 0 THEN ""
  ELSE IF Len(a) = 1 THEN a[1]
  ELSE a[1] \o ", " \o CommaList(Tail(a))

(* C6: for every method table and every request verb for which the table has
   neither an entry of that verb nor a wildcard entry, the response is 405
   and its Allow header lists exactly the verbs the table declares (with a
   handler or a response), each once, in declaration order, ALL left out. *)
C6_AllowHeader ==
  \A s \in Slots :
    LET r == req[s]
    IN OnTableRoute(r) =>
         LET t == TableOf(r)
             declared == DeclaredVerbs(t)
         IN (ExactKeys(t, r.method) = {} /\ WildcardKeys(t) = {}) =>
              /\ r.pc = "done"
              /\ r.response.status = 405
              /\ r.handlerCalls = 0
              /\ declared # {} =>
                   /\ "allow" \in DOMAIN r.response.headers
                   /\ \E a \in [1..Cardinality(declared) -> declared] :
                        /\ \A i, j \in DOMAIN a : a[i] = a[j] => i = j
                        /\ \A i, j \in DOMAIN a :
                             i < j => FirstKey(t, a[i]) < FirstKey(t, a[j])
                        /\ r.response.headers["allow"] = CommaList(a)

\* HEAD on a table that declares POST and then GET: 405 with Allow: POST, GET
C6_Witness ==
  \E s \in Slots :
    /\ req[s].pc = "done"
    /\ req[s].method = "HEAD"
    /\ OnTableRoute(req[s])
    /\ Len(TableOf(req[s])) = 2
    /\ req[s].response.status = 405
    /\ "allow" \in DOMAIN req[s].response.headers
    /\ req[s].response.headers["allow"] = "POST, GET"

(* C7: for every method table and request verb, a table that declares the
   verb dispatches the request to an entry of that verb and to no other; the
   wildcard ALL entry is selected only when the table has no entry of the
   request's verb. *)
C7_ExactBeforeWildcard ==
  \A s \in Slots :
    LET r == req[s]
    IN OnTableRoute(r) =>
         LET t == TableOf(r)
             exact == ExactKeys(t, r.method)
             wild == WildcardKeys(t)
         IN /\ exact # {} => \E i \in exact : r.selected = t[i].key
            /\ (exact = {} /\ wild # {}) => \E i \in wild : r.selected = t[i].key
            /\ (exact = {} /\ wild = {}) => r.selected = ""
            /\ \A i \in UsableKeys(t) :
                 (r.selected = t[i].key /\ r.pc = "done"
                    /\ t[i].value.kind = "response") =>
                   r.response.body = t[i].value.resp.body
            /\ \A i \in UsableKeys(t) :
                 (r.selected = t[i].key /\ t[i].value.kind = "fn") =>
                   r.handlerCalls = 1

\* a POST on a table with both an ALL and a POST entry went to the POST entry
C7_Witness ==
  \E s \in Slots :
    /\ req[s].pc = "done"
    /\ req[s].method = "POST"
    /\ OnTableRoute(req[s])
    /\ WildcardKeys(TableOf(req[s])) # {}
    /\ TableOf(req[s])[1].key = "ALL"
    /\ req[s].selected = "POST"

\* some method table of the options has a key that is no verb and not ALL
HasUnknownKey(opts) ==
  \E p \in DOMAIN opts.routes.table :
    /\ opts.routes.table[p].kind = "table"
    /\ \E i \in 1..Len(opts.routes.table[p].table) :
         Upper(opts.routes.table[p].table[i].key) \notin
           {"GET", "POST", "PUT", "PATCH", "DELETE", "OPTIONS", "HEAD", "ALL"}

(* C8: a method table with a key that is neither a verb (GET, POST, PUT,
   PATCH, DELETE, OPTIONS, HEAD) nor ALL makes createServer throw: the server
   never serves with such a table, and after the throw no request is ever
   handled, so the error cannot come up at request time. *)
C8_UnknownKeyRejectedAtSetup ==
  /\ HasUnknownKey(options) => phase \in {"boot", "configError"}
  /\ phase # "serving" => \A s \in Slots : req[s] = IdleReq
  /\ phase = "configError" => DOMAIN mappedRoutes = {}

\* createServer threw on a table whose second key is TRACE
C8_Witness ==
  /\ phase = "configError"
  /\ options.routes.defined
  /\ options.routes.table[PatternA].kind = "table"
  /\ Len(options.routes.table[PatternA].table) = 2
  /\ options.routes.table[PatternA].table[1].key = "GET"
  /\ options.routes.table[PatternA].table[2].key = "TRACE"

\* a structured object JSON.stringify cannot serialise
Unserialisable(v) == v.type = "object" /\ v.inst = "Object" /\ v.str = "cyclic"

\* the response normalisation owes a returned value, rule by rule
NormalisedAsRuled(v, response) ==
  IF v.inst = "Response"
    THEN /\ response.status = v.resp.status
         /\ response.body = v.resp.body
         /\ \A n \in DOMAIN v.resp.headers :
              n \in DOMAIN response.headers /\ response.headers[n] = v.resp.headers[n]
  ELSE IF v.inst = "null" \/ v.type = "undefined"
    THEN response.status = 204 /\ response.body = ""
  ELSE IF v.type = "string"
    THEN /\ response.status = 200
         /\ response.body = v.str
         /\ response.implied = "text/plain;charset=utf-8"
  ELSE IF v.type \in {"number", "bigint"}
    THEN response.status = 200 /\ response.body = ToString(v.num)
  ELSE IF v.type = "boolean"
    THEN /\ response.status = 200
         /\ response.body = (IF v.num = 1 THEN "true" ELSE "false")
  ELSE IF v.inst \in {"ArrayBuffer", "ArrayBufferView", "Blob", "ReadableStream"}
    THEN response.status = 200 /\ response.body = v.str
  ELSE IF v.type = "object"
    THEN /\ response.status = 200
         /\ response.body = (IF v.str = "plain" THEN "{\"ok\":true}" ELSE "{}")
         /\ ContentTypeOf(response) = "application/json;charset=utf-8"
  ELSE response.status = 200 /\ response.body = v.str

(* C9, as claimed: normalisation is total: every value a handler returns
   yields a response, by the rules in their priority order. *)
C9_NormalisationTotal ==
  \A s \in Slots :
    req[s].returned =>
      /\ req[s].pc = "done"
      /\ req[s].error.kind = "none"
      /\ NormalisedAsRuled(req[s].result, req[s].response)

(* C9, amended: every value a handler returns, except a structured object
   that cannot be JSON-serialised, yields exactly one response, fixed by the
   rules in their priority order (Response passed through; null or absent
   204 and empty; string as text; number, boolean, bigint stringified;
   binary-like passed through; other object as JSON with application/json);
   for an object that cannot be serialised normalisation raises an
   exception instead of yielding a response. *)
C9_Normalisation ==
  \A s \in Slots :
    LET r == req[s]
    IN r.returned =>
         IF Unserialisable(r.result)
           THEN r.error.kind = "Error" /\ r.pc \in {"onError", "done"}
           ELSE /\ r.pc = "done"
                /\ r.error.kind = "none"
                /\ r.hookCalls = 0
                /\ NormalisedAsRuled(r.result, r.response)

\* a handler returned a Blob and, on another run, a plain object: here the
\* object, answered as JSON
C9_Witness ==
  \E s \in Slots :
    /\ req[s].pc = "done"
    /\ req[s].returned
    /\ req[s].result = VObject("plain")
    /\ req[s].response.status = 200
    /\ req[s].response.body = "{\"ok\":true}"

\* the headers a finished request's response carried before the base headers
\* were merged in
OwnHeaders(r) ==
  IF r.served # NoPath
    THEN LET h == staticHandlers[r.staticIdx]
             own == ("content-type" :> FileType(r.served))
                      @@ ("content-length" :> ToString(FileSize(r.served)))
         IN IF h.maxAge.defined
              THEN own @@ ("cache-control" :>
                             ("public, max-age=" \o
                                ToString(IF h.maxAge.value < 0 THEN 0 ELSE h.maxAge.value)))
              ELSE own
  ELSE IF r.hook.kind = "response" THEN r.hook.resp.headers
  ELSE IF r.error.kind # "none" THEN EmptyHeaders
  ELSE IF Has(r.stages, "405")
    THEN [n \in DOMAIN r.response.headers \cap {"allow"} |-> r.response.headers[n]]
  ELSE IF Has(r.stages, "404") THEN EmptyHeaders
  ELSE IF r.returned
    THEN IF r.result.inst = "Response" THEN r.result.resp.headers
         ELSE IF r.result.inst = "Blob" /\ r.result.mime # ""
           THEN "content-type" :> r.result.mime
         ELSE IF r.result.type = "object" /\ r.result.inst = "Object"
           THEN "content-type" :> "application/json;charset=utf-8"
         ELSE EmptyHeaders
  ELSE IF Has(r.stages, "notFound") THEN options.notFound.resp.headers
  ELSE IF options.routes.table[r.pathname].kind = "response"
    THEN options.routes.table[r.pathname].resp.headers
  ELSE LET t == TableOf(r)
       IN t[CHOOSE i \in UsableKeys(t) : t[i].key = r.selected].value.resp.headers

(* C10: every response the library produces (handler results, pre-built
   responses, static files, 405, 404, 500, error-hook responses) carries
   every base header: under the value the response itself set when it
   carries that name, under the base value otherwise; and it carries no
   other header than its own and the base headers. *)
C10_BaseHeadersFillGaps ==
  \A s \in Slots :
    LET r == req[s]
        own == OwnHeaders(r)
        base == IF options.baseHeaders.defined
                  THEN NewHeaders(options.baseHeaders.init) ELSE EmptyHeaders
    IN r.pc = "done" =>
         /\ DOMAIN r.response.headers = DOMAIN own \cup DOMAIN base
         /\ \A n \in DOMAIN own : r.response.headers[n] = own[n]
         /\ \A n \in DOMAIN base \ DOMAIN own : r.response.headers[n] = base[n]

\* a handler's html() response kept its Content-Type and gained X-Powered-By
C10_Witness ==
  \E s \in Slots :
    /\ req[s].pc = "done"
    /\ req[s].returned
    /\ req[s].result = VResponse(HelloPage)
    /\ options.baseHeaders.defined
    /\ req[s].response.headers["content-type"] = "text/html; charset=utf-8"
    /\ req[s].response.headers["x-powered-by"] = "hyperbun"

\* the base headers of the server as a Headers object
BaseOf(opts) ==
  IF opts.baseHeaders.defined THEN NewHeaders(opts.baseHeaders.init) ELSE EmptyHeaders

(* C11: a pre-built response a handler returns leaves normalisation with its
   status, its body and every header it had unchanged; the only difference
   is the base headers whose names it did not carry, added with the base
   value; and normalising the outcome again with the same base headers
   gives the same response. *)
C11_PrebuiltRoundTrip ==
  \A s \in Slots :
    LET r == req[s]
        before == r.result.resp
        after == r.response
        base == BaseOf(options)
    IN (r.pc = "done" /\ r.returned /\ r.result.inst = "Response") =>
         /\ after.status = before.status
         /\ after.body = before.body
         /\ after.implied = before.implied
         /\ \A n \in DOMAIN before.headers :
              n \in DOMAIN after.headers /\ after.headers[n] = before.headers[n]
         /\ \A n \in DOMAIN after.headers \ DOMAIN before.headers :
              n \in DOMAIN base /\ after.headers[n] = base[n]
         /\ \A n \in DOMAIN base : n \in DOMAIN after.headers
         /\ normaliseResponse(VResponse(after), options.baseHeaders) = after

\* a handler's 404 response without headers gained both base headers and
\* kept its status
C11_Witness ==
  \E s \in Slots :
    /\ req[s].pc = "done"
    /\ req[s].returned
    /\ req[s].result = VResponse(BareResponse)
    /\ options.baseHeaders.defined
    /\ req[s].response.status = 404
    /\ DOMAIN req[s].response.headers = {"content-type", "x-powered-by"}

(* C12: every handler invocation (route handler, method-table handler,
   not-found handler) gets a locals object that held nothing when the
   handler started and that no other request in flight holds; whatever the
   interleaving of requests, the object never holds a value another request
   wrote. *)
C12_LocalsPerRequest ==
  \A s \in Slots :
    req[s].handlerCalls > 0 =>
      /\ req[s].locals \in ObjectIds
      /\ req[s].localsAtStart = {}
      /\ heap[req[s].locals] \subseteq {s}
      /\ \A t \in Slots \ {s} : req[t].locals # req[s].locals

\* two handlers run at once, one for a route and one for notFound, and each
\* has written to its own locals
C12_Witness ==
  /\ req[1].pc = "handler"
  /\ req[2].pc = "notFound"
  /\ req[1].locals \in ObjectIds
  /\ req[2].locals \in ObjectIds
  /\ heap[req[1].locals] = {1}
  /\ heap[req[2].locals] = {2}

\* the request was handed to every static handler and each reported null
PassedAllStatic(r) ==
  /\ Len(r.stages) >= Len(staticHandlers)
  /\ \A i \in 1..Len(staticHandlers) : r.stages[i] = StageOfStatic(i)
  /\ r.staticIdx = Len(staticHandlers) + 1

(* C13: for a request whose method is neither GET nor HEAD every static
   handler reports not-handled: no file is served, nothing is thrown, and
   the request goes on to the later stages, even when its path names an
   existing file. *)
C13_StaticGetHeadOnly ==
  \A s \in Slots :
    LET r == req[s]
    IN (r.method \notin {"GET", "HEAD"} /\ r.pc \notin {"idle", "routing"}
          /\ ~RouteConfigured(r)) =>
         /\ r.served = NoPath
         /\ r.pc # "escaped"
         /\ \A i \in 1..Len(r.stages) :
              r.stages[i] \in {StageOfStatic(j) : j \in 1..Len(staticHandlers)} =>
                r.staticIdx > i
         /\ r.pc = "done" =>
              /\ PassedAllStatic(r)
              /\ Len(r.stages) > Len(staticHandlers)
              /\ r.stages[Len(staticHandlers) + 1] \in {"notFound", "404"}

\* a POST to /a, which the static root holds as a file, ended in the 404
C13_Witness ==
  \E s \in Slots :
    /\ req[s].pc = "done"
    /\ req[s].method = "POST"
    /\ req[s].pathname = <<"/", "a">>
    /\ Len(staticHandlers) = 1
    /\ staticHandlers[1].prefix = <<"/">>
    /\ FileExists(Append(staticHandlers[1].root, Seg("a")))
    /\ req[s].served = NoPath
    /\ req[s].response.status = 404

\* what C14 says of a static response, given the number n that max-age shows
StaticResponseAsRuled(r, h, n) ==
  /\ r.response.status = 200
  /\ {"content-length", "content-type"} \subseteq DOMAIN r.response.headers
  /\ r.response.headers["content-length"] = ToString(FileSize(r.served))
  /\ r.response.headers["content-type"] = FileType(r.served)
  /\ "cache-control" \in DOMAIN r.response.headers <=> h.maxAge.defined
  /\ h.maxAge.defined =>
       r.response.headers["cache-control"] = "public, max-age=" \o ToString(n)
  /\ r.response.body = (IF r.method = "HEAD" THEN "" ELSE FileContent(r.served))

(* C14, as claimed: every static response has status 200, Content-Length
   equal to the file size, the content type inferred from the file,
   Cache-Control: public, max-age=<n> exactly when a max-age is configured,
   n being the configured value, and for HEAD the same headers as for GET
   with an empty body. *)
C14_StaticHeadersAsConfigured ==
  \A s \in Slots :
    req[s].served # NoPath =>
      LET h == staticHandlers[req[s].staticIdx]
      IN StaticResponseAsRuled(req[s], h, h.maxAge.value)

(* C14, amended: as above, n being the configured value when that is zero
   or more, and 0 when the configured value is negative. *)
C14_StaticHeaders ==
  \A s \in Slots :
    req[s].served # NoPath =>
      LET h == staticHandlers[req[s].staticIdx]
      IN StaticResponseAsRuled(req[s], h,
                               IF h.maxAge.value < 0 THEN 0 ELSE h.maxAge.value)

\* a HEAD request served a file under a config whose max-age is negative
C14_Witness ==
  \E s \in Slots :
    /\ req[s].pc = "done"
    /\ req[s].served # NoPath
    /\ req[s].method = "HEAD"
    /\ staticHandlers[req[s].staticIdx].maxAge.defined
    /\ staticHandlers[req[s].staticIdx].maxAge.value < 0
    /\ req[s].response.body = ""
    /\ req[s].response.headers["cache-control"] = "public, max-age=0"

\* the resolved path p passes the resolver's containment check: it is the
\* root or below it, and its first segment below the root does not begin
\* with two dots
Contained(root, p) ==
  /\ IsPrefix(root, p)
  /\ Len(p) > Len(root) => ~IsPrefix(<<".", ".">>, p[Len(root) + 1])

\* static handler i was handed request r and got as far as path resolution
\* with a candidate that is no existing file
CandidateMissing(i, r) ==
  LET h == staticHandlers[i]
      rel == staticRelative(h, r.pathname)
  IN /\ i <= Len(r.stages)
     /\ r.stages[i] = StageOfStatic(i)
     /\ r.method \in {"GET", "HEAD"}
     /\ rel # NoPath
     /\ ~DecodeThrows(rel[1])
     /\ ~FileExists(PathResolve(h.root,
                                normaliseRelativePath(decodeURIComponent(rel[1]))))

CandidateOf(i, r) ==
  LET h == staticHandlers[i]
  IN PathResolve(h.root,
       normaliseRelativePath(decodeURIComponent(staticRelative(h, r.pathname)[1])))

IndexOf(i, r) == PathResolve(CandidateOf(i, r), staticHandlers[i].indexFile)

ServedIndex(i, r) ==
  /\ r.pc = "done"
  /\ r.staticIdx = i
  /\ r.served = IndexOf(i, r)
  /\ r.response.status = 200

\* no response and no error from handler i: the request went on
SoftMiss(i, r) ==
  /\ r.staticIdx > i
  /\ r.served = NoPath
  /\ r.pc = "done" =>
       /\ Len(r.stages) > Len(staticHandlers)
       /\ r.stages[Len(staticHandlers) + 1] \in {"notFound", "404"}

(* C15, as claimed: when the sanitised candidate is no existing file, the
   resolver serves <candidate>/<index file name> if that file exists, and
   otherwise reports a soft miss: no response, no error, and the request
   goes to the next static config and then to the later stages. *)
C15_IndexWheneverItExists ==
  \A s \in Slots : \A i \in 1..Len(staticHandlers) :
    CandidateMissing(i, req[s]) =>
      IF FileExists(IndexOf(i, req[s]))
        THEN ServedIndex(i, req[s])
        ELSE SoftMiss(i, req[s])

(* C15, amended: when the sanitised candidate is no existing file, the
   resolver serves the index file name resolved against the candidate if
   that file exists and both the candidate and the index path pass the
   containment check against the root; in every other case it reports a
   soft miss: no response, no error, and the request goes to the next
   static config and then to the later stages. *)
C15_IndexFallback ==
  \A s \in Slots : \A i \in 1..Len(staticHandlers) :
    CandidateMissing(i, req[s]) =>
      IF /\ FileExists(IndexOf(i, req[s]))
         /\ Contained(staticHandlers[i].root, CandidateOf(i, req[s]))
         /\ Contained(staticHandlers[i].root, IndexOf(i, req[s]))
        THEN ServedIndex(i, req[s])
        ELSE SoftMiss(i, req[s])

\* GET / on the root that holds index.html answered 200 with that file
C15_Witness ==
  \E s \in Slots :
    /\ req[s].pc = "done"
    /\ req[s].method = "GET"
    /\ req[s].pathname = <<"/">>
    /\ req[s].served = <<Seg("srv"), Seg("www"), Seg("index.html")>>
    /\ req[s].response.status = 200
    /\ req[s].response.body = "<h1>Static Fixture</h1>"

\* the first static handler that would answer the request, 0 when none would
FirstServing(r) ==
  LET can == {i \in 1..Len(staticHandlers) : StaticKind(i, r) = "response"}
  IN IF can = {} THEN 0 ELSE CHOOSE i \in can : \A j \in can : i <= j

(* C16: the static configs are tried in declaration order and the first one
   that can serve the request wins: the handlers stand in the order of the
   configs, a handler is consulted only after every earlier one reported
   not-handled, and a request that several configs can serve, their
   prefixes overlapping, gets the file of the first of them.  The JSX
   server hands createServer the user's static configs, in their order,
   followed by the generated public-directory config. *)
C16_FirstStaticWins ==
  /\ phase = "serving" =>
       /\ Len(staticHandlers) = Len(options.static)
       /\ \A i \in 1..Len(options.static) :
            staticHandlers[i].root = PathResolve(Cwd, options.static[i].dir)
  /\ (phase = "serving" /\ jsx.defined) =>
       LET user == jsx.static.defs
       IN /\ Len(options.static) = Len(user) + 1
          /\ \A i \in 1..Len(user) : options.static[i] = user[i]
          /\ options.static[Len(user) + 1].dir = jsx.publicDir
          /\ options.static[Len(user) + 1].prefix.value = normalizePrefix(jsx.publicPrefix)
  /\ \A s \in Slots :
       LET r == req[s]
       IN /\ \A i \in 1..Len(r.stages) :
               r.stages[i] \in {StageOfStatic(k) : k \in 1..Len(staticHandlers)} =>
                 /\ r.stages[i] = StageOfStatic(i)
                 /\ \A k \in 1..(i - 1) : StaticKind(k, r) = "null"
          /\ (r.pc = "done" /\ ~RouteConfigured(r) /\ FirstServing(r) # 0) =>
               /\ r.staticIdx = FirstServing(r)
               /\ r.served =
                    staticHandle(staticHandlers[FirstServing(r)], r.method, r.pathname,
                                 options.baseHeaders).path
               /\ Len(r.stages) = FirstServing(r)

\* GET /a on a JSX server whose user config and generated public-directory
\* config both hold a file for it: the user's file was served
C16_Witness ==
  \E s \in Slots :
    /\ jsx.defined
    /\ jsx.static.defined
    /\ req[s].pc = "done"
    /\ Len(staticHandlers) = 2
    /\ StaticKind(1, req[s]) = "response"
    /\ StaticKind(2, req[s]) = "response"
    /\ req[s].served = <<Seg("srv"), Seg("www"), Seg("a")>>
    /\ staticHandlers[2].root = <<Seg("srv"), Seg("up")>>

\* the page asks for hydration and its component comes without a module
\* reference: a bare function, or {component} without a module
HydratesWithoutReference(page) ==
  /\ page.hydrate \in {"undefined", "true", "function"}
  /\ page.component \in {"function", "component"}

(* C19: when hydration is requested (hydrate unset, true or a function) for
   a page whose component has no module reference, or for such a not-found
   page, or when the page table is empty, createJSXServer throws at setup:
   the server never serves with such a configuration, and after the throw
   no request is ever handled, so the error cannot come up at request
   time. *)
C19_HydrationCheckedAtSetup ==
  jsx.defined =>
    /\ ( \/ DOMAIN jsx.pages = {}
         \/ \E route \in DOMAIN jsx.pages : HydratesWithoutReference(jsx.pages[route])
         \/ jsx.notFoundPage.defined /\ HydratesWithoutReference(jsx.notFoundPage) )
         => phase = "configError"
    /\ phase = "configError" =>
         /\ \A s \in Slots : req[s] = IdleReq
         /\ DOMAIN mappedRoutes = {}
         /\ staticHandlers = <<>>
    /\ \A s \in Slots : req[s].pc # "idle" => phase = "serving"

\* createJSXServer threw for a not-found page given as a bare function with
\* hydrate unset, the page table itself being fine
C19_Witness ==
  /\ phase = "configError"
  /\ jsx.defined
  /\ DOMAIN jsx.pages = {HomeRoute}
  /\ ~HydratesWithoutReference(jsx.pages[HomeRoute])
  /\ jsx.pages[HomeRoute].component # "other"
  /\ jsx.notFoundPage = Page("function", "undefined")

\* no route matched, every static handler reported null, and fetchHandler
\* went on to its last part
ReachedNotFound(r) ==
  /\ r.pc \notin {"idle", "routing"}
  /\ ~RouteConfigured(r)
  /\ Len(r.stages) > Len(staticHandlers)
  /\ \A i \in 1..Len(staticHandlers) : r.stages[i] = StageOfStatic(i)

(* C17: a request that no route matches and every static handler passed on
   is answered by the configured not-found entry when there is one: a
   handler is invoked once, with a context, and what it returns is
   normalised; a pre-built response is passed through.  The generic 404
   (status 404) answers it exactly when no not-found entry is
   configured. *)
C17_NotFoundEntry ==
  \A s \in Slots :
    LET r == req[s]
        n == Len(staticHandlers)
        entry == options.notFound
    IN ReachedNotFound(r) =>
         /\ entry.kind \notin {"fn", "response"} =>
              /\ r.pc = "done"
              /\ r.stages = [i \in 1..n |-> StageOfStatic(i)] \o <<"404">>
              /\ r.response.status = 404
              /\ r.response.body = "Not Found"
              /\ r.handlerCalls = 0
         /\ entry.kind \in {"fn", "response"} =>
              /\ r.stages[n + 1] = "notFound"
              /\ ~Has(r.stages, "404")
         /\ entry.kind = "response" =>
              /\ r.pc = "done"
              /\ r.handlerCalls = 0
              /\ r.response.status = entry.resp.status
              /\ r.response.body = entry.resp.body
         /\ entry.kind = "fn" =>
              /\ r.handlerCalls = 1
              /\ r.locals \in ObjectIds
              /\ r.selected = entry.name
              /\ (r.pc = "done" /\ r.returned /\ r.error.kind = "none") =>
                   r.response = normaliseResponse(r.result, options.baseHeaders)

\* POST /a passed the static config, which holds a file of that name, and the
\* not-found handler's object was sent as JSON
C17_Witness ==
  \E s \in Slots :
    /\ req[s].pc = "done"
    /\ req[s].method = "POST"
    /\ Len(staticHandlers) > 0
    /\ ReachedNotFound(req[s])
    /\ options.notFound.kind = "fn"
    /\ req[s].result = VObject("plain")
    /\ req[s].response.status = 200
    /\ req[s].response.body = "{\"ok\":true}"

\* the content type the helper stands for
HelperType(fn) ==
  IF fn = "html" THEN "text/html; charset=utf-8" ELSE "text/plain; charset=utf-8"

(* C18: html(body, init) and text(body, init) return a response with the
   given body, the status of init or 200 when init names none, and every
   header of init under its value; the content type is text/html
   (text/plain for text) exactly when init set no Content-Type, whatever
   the case of the name; and a route that returns the helper's response
   answers with that status, body and content type. *)
C18_HtmlTextHelpers ==
  /\ call.fn \in {"html", "text"} =>
       LET given == NewHeaders(call.init.headers)
           res == call.result
       IN /\ res.body = call.body
          /\ res.status = (IF call.init.status.defined
                             THEN call.init.status.value ELSE 200)
          /\ \A n \in DOMAIN given : n \in DOMAIN res.headers /\ res.headers[n] = given[n]
          /\ DOMAIN res.headers = DOMAIN given \cup {"content-type"}
          /\ IF \E k \in DOMAIN call.init.headers : k \in {"Content-Type", "content-type"}
               THEN res.headers["content-type"] = given["content-type"]
               ELSE res.headers["content-type"] = HelperType(call.fn)
  /\ \A s \in Slots :
       (req[s].pc = "done" /\ req[s].returned) =>
         /\ req[s].result = VResponse(call.result)
         /\ req[s].response.status = call.result.status
         /\ req[s].response.body = call.result.body
         /\ req[s].response.headers["content-type"] = call.result.headers["content-type"]

\* a route that returned html(body) answered 200 with text/html and the body
C18_Witness ==
  \E s \in Slots :
    /\ req[s].pc = "done"
    /\ call.fn = "html"
    /\ call.body = "<h1>Hello</h1>"
    /\ call.init = ResponseInit(NoNumber, EmptyHeaders)
    /\ req[s].response.status = 200
    /\ req[s].response.headers["content-type"] = "text/html; charset=utf-8"
    /\ req[s].response.body = "<h1>Hello</h1>"

\* text t holds the characters of pat in a row
Contains(t, pat) ==
  \E i \in 1..(Len(t) - Len(pat) + 1) : SubSeq(t, i, i + Len(pat) - 1) = pat

(* C20: for every props value and every route key the serialised props hold
   no "<" character, and the text of the inline bootstrap script, whenever
   one is written, holds no "</" sequence. *)
C20_BootstrapEscaped ==
  call.fn = "renderPage" =>
    /\ ~Contains(call.serializedProps, <<"<">>)
    /\ ~Contains(call.bootstrap, <<"<", "/">>)
    /\ call.script => Contains(call.bootstrap, <<"globalThis.__HYPERBUN_ROUTE__=">>)
    /\ call.script <=> (call.hydrate /\ ~call.threw)

\* a hydrating page whose route key holds "</" and whose props hold "<"
C20_Witness ==
  /\ call.fn = "renderPage"
  /\ call.script
  /\ Contains(call.route, <<"<", "/">>)
  /\ call.props.kind = "string"
  /\ Contains(call.props.text, <<"<">>)
  /\ Contains(call.bootstrap, <<"<", "\\", "/">>)
  /\ Contains(call.bootstrap, <<"\\", "u", "0", "0", "3", "c">>)

(* C21, as claimed: whenever a request-time error is not fully handled by the
   error hook (no hook configured, the hook returned nothing, or the hook
   threw), the error the handler threw is logged before the generic 500 is
   returned; an error for which the hook returned a response is not
   logged. *)
C21_UnhandledErrorLogged ==
  \A s \in Slots :
    LET r == req[s]
    IN (r.pc = "done" /\ r.error.kind # "none") =>
         /\ r.hook.kind \in {"none", "nothing", "throw"} =>
              /\ Has(r.logged, r.error)
              /\ r.response = Generic500(options.baseHeaders)
         /\ r.hook.kind = "response" => r.logged = <<>>

\* a/../../b
UpUpPath == <<"a", "/", ".", ".", "/", ".", ".", "/", "b">>

(* C23: normaliseRelativePath walks the segments left to right, drops empty
   and "." segments and lets ".." remove the last accumulated segment, or
   nothing when none is accumulated: for every input the accumulator ends
   with no empty, "." or ".." segment, the result is its segments joined and
   splits into no such segment, normalising the result again returns it
   unchanged, and a/../../b gives b. *)
C23_SanitiseSegments ==
  call.fn = "normaliseRelativePath" =>
    /\ \A i \in 1..Len(call.safe) : call.safe[i] \notin {<<>>, Dot, DotDot}
    /\ call.result = Join(call.safe)
    /\ call.result # <<>> =>
         \A i \in 1..Len(Split(call.result)) :
           Split(call.result)[i] \notin {<<>>, Dot, DotDot}
    /\ call.again = call.result
    /\ call.relative = UpUpPath => call.result = <<"b">>

\* a/../../b was normalised to b
C23_Witness ==
  /\ call.fn = "normaliseRelativePath"
  /\ call.relative = UpUpPath
  /\ call.result = <<"b">>
  /\ call.again = <<"b">>

\* static handler i was handed request r
TriedStatic(i, r) == i <= Len(r.stages) /\ r.stages[i] = StageOfStatic(i)

(* C24, as claimed: a GET whose path, with the configured prefix stripped
   and the segments sanitised, names an existing file inside the root is
   served that file by the static handler, whatever the file's name, names
   that begin with two dots included; a path not under the configured
   prefix is not handled. *)
C24_ExistingFileServed ==
  \A s \in Slots : \A i \in 1..Len(staticHandlers) :
    LET r == req[s]
        h == staticHandlers[i]
        rel == staticRelative(h, r.pathname)
    IN (TriedStatic(i, r) /\ r.method = "GET") =>
         /\ (/\ rel # NoPath
             /\ ~DecodeThrows(rel[1])
             /\ IsPrefix(h.root, CandidateOf(i, r))
             /\ FileExists(CandidateOf(i, r))) =>
              /\ r.pc = "done"
              /\ r.staticIdx = i
              /\ r.served = CandidateOf(i, r)
              /\ r.response.status = 200
              /\ r.response.body = FileContent(CandidateOf(i, r))
         /\ rel = NoPath => r.staticIdx > i /\ r.served = NoPath

(* C28: the status of a not-found response is what the configured not-found
   entry yields and is not forced to 404: a not-found handler that returns a
   string, a number, a boolean, binary data or an object answers 200, one
   that returns null or nothing answers 204, one that returns a response
   answers with that response's status, and a pre-built not-found response
   keeps its status; status 404 comes only from the generic fallback or
   from a not-found entry that sets it itself. *)
C28_NotFoundStatus ==
  \A s \in Slots :
    LET r == req[s]
        entry == options.notFound
    IN (r.pc = "done" /\ ReachedNotFound(r)) =>
         /\ (entry.kind = "fn" /\ r.returned /\ r.error.kind = "none") =>
              r.response.status =
                (IF r.result.inst = "Response" THEN r.result.resp.status
                 ELSE IF r.result.type = "undefined" \/ r.result.inst = "null" THEN 204
                 ELSE 200)
         /\ entry.kind = "response" => r.response.status = entry.resp.status
         /\ r.response.status = 404 =>
              \/ ~Truthy(entry) /\ Has(r.stages, "404")
              \/ entry.kind = "response" /\ entry.resp.status = 404
              \/ /\ entry.kind = "fn" /\ r.returned
                 /\ r.result.inst = "Response" /\ r.result.resp.status = 404

\* the not-found handler returned null and the request was answered 204
C28_Witness ==
  \E s \in Slots :
    /\ req[s].pc = "done"
    /\ ReachedNotFound(req[s])
    /\ options.notFound.kind = "fn"
    /\ req[s].returned
    /\ req[s].result = VNull
    /\ req[s].response.status = 204

\* the request's route handler returned a value normaliseResponse throws on
NormaliseFailed(r) ==
  /\ Len(r.stages) > 0
  /\ r.stages[1] = "route"
  /\ r.returned
  /\ normaliseThrows(r.result)

(* C30: a failure while normalising what a route handler returned goes the
   way of an exception thrown by the handler: the error hook is called with
   it, once, when one is configured, and its response is the final
   response; with no hook, or a hook that returns nothing or throws, the
   request is answered with the generic 500.  The failure never leaves the
   request without a response of the library. *)
C30_NormaliseFailureHandled ==
  \A s \in Slots :
    LET r == req[s]
    IN NormaliseFailed(r) =>
         /\ r.pc \in {"onError", "done"}
         /\ r.error.kind = "Error"
         /\ r.handlerCalls = 1
         /\ r.hookCalls = (IF options.onError THEN 1 ELSE 0)
         /\ options.onError => Has(r.stages, "onError")
         /\ r.pc = "onError" => options.onError
         /\ r.pc = "done" =>
              IF r.hook.kind = "response"
                THEN r.response = applyBaseHeaders(r.hook.resp, options.baseHeaders)
                ELSE r.response = Generic500(options.baseHeaders)

\* the handler returned an object JSON cannot serialise and the hook's 555
\* response was sent
C30_Witness ==
  \E s \in Slots :
    /\ req[s].pc = "done"
    /\ NormaliseFailed(req[s])
    /\ req[s].result = VObject("cyclic")
    /\ req[s].hook.kind = "response"
    /\ req[s].response.status = 555

(* C29: a method table with a wildcard ALL entry (a handler or a response)
   answers no verb with 405; a method table with no usable entry (no key, or
   only keys whose value is absent) answers every verb with 405 and no Allow
   header; keys are matched whatever their case: a key `get` with a value
   answers GET requests, and a 405 of its table lists the verb as GET in the
   Allow header. *)
C29_WildcardAndEmptyTables ==
  \A s \in Slots :
    LET r == req[s]
    IN OnTableRoute(r) =>
         LET t == TableOf(r)
             lower == {i \in UsableKeys(t) : t[i].key = "get"}
         IN /\ WildcardKeys(t) # {} =>
                 /\ ~Has(r.stages, "405")
                 /\ r.pc = "done" => r.response.status # 405
            /\ UsableKeys(t) = {} =>
                 /\ r.pc = "done"
                 /\ r.response.status = 405
                 /\ r.response.body = "Method Not Allowed"
                 /\ "allow" \notin DOMAIN r.response.headers
                 /\ r.handlerCalls = 0
            /\ (lower # {} /\ r.method = "GET") =>
                 /\ ~Has(r.stages, "405")
                 /\ r.selected \in {"get", "GET"}
            /\ (lower # {} /\ Has(r.stages, "405")) =>
                 /\ "allow" \in DOMAIN r.response.headers
                 /\ r.response.headers["allow"] \in {"GET", "GET, POST", "POST, GET"}

\* HEAD on a table whose only key is `get`: 405 with Allow: GET
C29_Witness ==
  \E s \in Slots :
    /\ req[s].pc = "done"
    /\ OnTableRoute(req[s])
    /\ TableOf(req[s]) = <<[key |-> "get", value |-> KeyValue("fn", "get")]>>
    /\ req[s].method = "HEAD"
    /\ req[s].response.status = 405
    /\ "allow" \in DOMAIN req[s].response.headers
    /\ req[s].response.headers["allow"] = "GET"

\* the pre-built response configured for the entry that answered request r,
\* as it was configured; NoResponse when a handler or a fallback answered
ConfiguredResponse(r) ==
  IF RouteConfigured(r)
    THEN LET e == options.routes.table[r.pathname]
             usable == IF e.kind = "table" THEN tableMethods(e.table)
                       ELSE [m \in {} |-> NoEntry]
             picked == selectMethod(usable, Upper(r.method))
         IN IF e.kind = "response" THEN e.resp
            ELSE IF e.kind = "table" /\ picked.kind = "response" THEN picked.resp
            ELSE NoResponse
  ELSE IF ReachedNotFound(r) /\ options.notFound.kind = "response"
    THEN options.notFound.resp
  ELSE NoResponse

\* no pre-built response the server holds was read
ConfiguredUnread ==
  /\ \A p \in DOMAIN mappedRoutes :
       /\ ~mappedRoutes[p].resp.bodyUsed
       /\ \A m \in DOMAIN mappedRoutes[p].methods :
            ~mappedRoutes[p].methods[m].resp.bodyUsed
  /\ ~options.notFound.resp.bodyUsed

(* C27: a pre-built response configured as a route entry, a method-table
   entry or the not-found entry is not consumed and not changed by serving
   it: no step of a serving server changes the configured responses, none
   of them is ever read, and every request such an entry answers receives
   the entry's status and body and its headers with the base headers filled
   in. *)
C27_PrebuiltNotConsumed ==
  /\ [][phase = "serving" => (mappedRoutes' = mappedRoutes /\ options' = options)]_vars
  /\ [](phase = "serving" =>
          /\ ConfiguredUnread
          /\ options.routes.defined => mappedRoutes = mapRoutes(options.routes)
          /\ \A s \in Slots :
               (req[s].pc = "done" /\ ConfiguredResponse(req[s]) # NoResponse) =>
                 /\ req[s].handlerCalls = 0
                 /\ req[s].response =
                      applyBaseHeaders(ConfiguredResponse(req[s]), options.baseHeaders))

\* a request was answered from the pre-built route response with a base
\* header filled in, and the configured response has no such header
C27_Witness ==
  \E s \in Slots :
    /\ req[s].pc = "done"
    /\ RouteConfigured(req[s])
    /\ options.routes.table[req[s].pathname].kind = "response"
    /\ options.baseHeaders.defined
    /\ "content-type" \in DOMAIN req[s].response.headers
    /\ req[s].response.headers["content-type"] = "base/type"
    /\ "content-type" \notin DOMAIN mappedRoutes[req[s].pathname].resp.headers
    /\ ~mappedRoutes[req[s].pathname].resp.bodyUsed

\* the load goes by a module reference alone
ByReference(l) == l.descriptor.component = "" /\ l.descriptor.modulePath # ""

(* C25: the component cache is keyed by module path and export name, and
   concurrent first loads do no harm: whatever the interleaving, a load that
   returns by reference returns the component its module exports under that
   name and leaves the cache with that component under its key; every cache
   entry holds the component of its key; and a load that finds an entry for
   its key returns it without importing the module. *)
C25_ComponentCache ==
  /\ \A s \in Slots :
       LET l == loads[s]
           d == l.descriptor
       IN /\ (l.pc = "returned" /\ ByReference(l)) =>
               /\ l.got # ""
               /\ l.got = ExportOf(d.modulePath, d.exportName)
               /\ cacheKey(d) \in DOMAIN componentCache
               /\ componentCache[cacheKey(d)] = l.got
          /\ (ByReference(l) /\ l.cachedAtStart) =>
               /\ ~l.imported
               /\ l.pc \in {"returned"}
          /\ (ByReference(l) /\ l.pc = "returned" /\ ~l.cachedAtStart) => l.imported
  /\ \A key \in DOMAIN componentCache :
       \E m \in ModulePaths, e \in ExportNames :
         /\ key = m \o "#" \o e
         /\ componentCache[key] # ""
         /\ componentCache[key] = ExportOf(m, e)

\* two requests imported the same module at once, both got its component,
\* and the cache holds the one entry
C25_Witness ==
  /\ \A s \in Slots :
       /\ loads[s].pc = "returned"
       /\ loads[s].descriptor = Descriptor("", "/app/Home.tsx", "Widget")
       /\ loads[s].imported
       /\ loads[s].got = "Home.tsx:Widget"
  /\ DOMAIN componentCache = {"/app/Home.tsx#Widget"}

(* C26: the Tailwind plugin is resolved at most once: however many callers
   there are and in whatever order they call and resume, the import of the
   plugin module is attempted at most once, every caller awaits the one
   stored promise, and every caller that resumes receives the value that
   promise was fulfilled with, null included: a null result is not
   retried. *)
C26_TailwindResolvedOnce ==
  /\ tailwindImports <= 1
  /\ tailwindPluginPromise.id = tailwindImports
  /\ tailwindPluginPromise.state = "none" <=> tailwindImports = 0
  /\ \A c \in 1..MaxCallers :
       /\ callers[c].pc # "idle" =>
            /\ callers[c].promise = 1
            /\ tailwindPluginPromise.id = 1
       /\ callers[c].found = "none" => \A d \in 1..MaxCallers \ {c} : callers[d].found # "none"
       /\ callers[c].pc = "resumed" =>
            /\ tailwindPluginPromise.state = "fulfilled"
            /\ callers[c].got = tailwindPluginPromise.value
            /\ callers[c].got \in {"plugin", "null"}

\* the plugin was missing: a caller that came after the null result got null
\* too, as did one that waited with the first, and the import ran once
C26_Witness ==
  /\ tailwindImports = 1
  /\ tailwindPluginPromise.value = "null"
  /\ \E c, d \in 1..MaxCallers :
       /\ callers[c].pc = "resumed" /\ callers[c].found = "pending"
       /\ callers[c].got = "null"
       /\ callers[d].pc = "resumed" /\ callers[d].found = "fulfilled"
       /\ callers[d].got = "null"

\* the page hydrates on the client: its hydrate option is not false
NeedsHydration(page) == page.hydrate # "false"

(* C22, as claimed: the client bundle registers exactly the routes that need
   hydration: a page configured with hydrate: false contributes no entry to
   the generated client entry, and no bundle is built when no page needs
   hydration. *)
C22_BundleOnlyHydratedRoutes ==
  (phase = "serving" /\ jsx.defined) =>
    LET needed == {route \in DOMAIN jsx.pages : NeedsHydration(jsx.pages[route])}
                    \cup (IF jsx.notFoundPage.defined /\ NeedsHydration(jsx.notFoundPage)
                            THEN {NOT_FOUND_KEY} ELSE {})
    IN /\ bundle.routes = needed
       /\ bundle.built <=> needed # {}

=============================================================================
